---- MODULE Spec2Model ----
(***************************************************************************)
(* The versioned-document store of relplanner's server.go: document POST   *)
(* (updateJSONFileWithBackup), document GET (serveJSONFile), the backup    *)
(* snapshot, its checksum sidecar, the rotation (cleanupOldBackups) and    *)
(* the backup DELETE, as request workers that share the data directory.    *)
(* Every access to the file system is one step of a worker; os.WriteFile   *)
(* is two (open with O_TRUNC, then write).                                 *)
(***************************************************************************)
EXTENDS Integers, Sequences, FiniteSets, TLC

VARIABLES docs, bdir, now, proc, nreq, audit, snap, lastOk

vars == <<docs, bdir, now, proc, nreq, audit, snap, lastOk>>

(* ------------------------------ bounds --------------------------------- *)

\* the clock shows seconds 1..MaxTime
MaxTime == 3
\* requests started in one run of the sequential specification
MaxReqs == 4
\* requests started in one run of the concurrent specification
MaxConcReqs == 2
\* the clock shows seconds 1..MaxConcTime in the concurrent specification
MaxConcTime == 2

\* server.go:28
defaultMaxBackups == 10

Workers == {"w1", "w2"}

(* ------------------------------ values --------------------------------- *)

\* Byte contents.  Nil is Go's nil slice (what os.ReadFile returns with an
\* error), Empty the zero-length content of a file just opened with O_TRUNC.
Nil == [kind |-> "nil"]
Empty == [kind |-> "empty"]
Absent == [kind |-> "absent"]
Garbage == [kind |-> "garbage"]

\* Parsed JSON values: an object with its key set (rev tells two payloads
\* under the same keys apart), or a non-object.
EnvV1 == [type |-> "object", keys |-> {"environments"}, rev |-> 1]
EnvV2 == [type |-> "object", keys |-> {"environments"}, rev |-> 2]
StagingV == [type |-> "object", keys |-> {"staging"}, rev |-> 1]
ArrayV == [type |-> "array", keys |-> {}, rev |-> 1]

Values == {EnvV1, EnvV2, StagingV, ArrayV}

\* the value of the text {}
EmptyObject == [type |-> "object", keys |-> {}, rev |-> 0]

\* JSON text: a value in a layout (compact, or indented by two spaces).
Text(layout, v) == [kind |-> "json", layout |-> layout, value |-> v]

\* The length of a content in bytes, as far as lengths compare: a payload of
\* a higher rev is longer, and so is one with more keys.
Size(b) ==
    CASE b.kind = "json" -> b.value.rev + Cardinality(b.value.keys)
      [] b.kind = "mixed" -> b.size
      [] OTHER -> 0

\* What a file holding old holds after data is written at offset 0 through a
\* descriptor opened earlier: data, followed by what of old lies beyond it.
Overwritten(old, data) ==
    IF Size(data) >= Size(old) THEN data
    ELSE [kind |-> "mixed", head |-> data, size |-> Size(old)]

\* What a file holds after an os.WriteFile of data that failed in its write:
\* some beginning of data, shorter than data.
Partial(data) == [kind |-> "partial", of |-> data]

\* The request bodies a client sends.
Bodies ==
    {Garbage, Text("indent2", EnvV1), Text("compact", EnvV2),
     Text("compact", StagingV), Text("compact", ArrayV)}

Docs == {"environments.json", "releases.json"}

\* strings.TrimSuffix(baseFilename, ".json")
TrimSuffixJSON(base) ==
    CASE base = "environments.json" -> "environments"
      [] base = "releases.json" -> "releases"
      [] base = "holidays.json" -> "holidays"
      [] OTHER -> base

Exts == {"json", "json.sha256"}

\* A backup-directory entry <prefix>.<timestamp>.<ext>
Name(prefix, ts, ext) == [prefix |-> prefix, ts |-> ts, ext |-> ext]

Names == {Name(TrimSuffixJSON(d), t, e) : d \in Docs, t \in 1..MaxTime, e \in Exts}

(* ------------------------- pure functions ------------------------------ *)

\* json.Unmarshal(body, &jsonData): the value, or an error
Unmarshal(body) ==
    IF body.kind = "json" THEN [ok |-> TRUE, value |-> body.value]
    ELSE [ok |-> FALSE, value |-> ArrayV]

\* json.MarshalIndent(jsonData, "", "  ")
MarshalIndent(v) == Text("indent2", v)

\* mutant: a header value of 0 or less is taken as the limit
maxBackupsOf_AnyInt(h) ==
    IF h.kind = "int" THEN h.n ELSE defaultMaxBackups

\* mutant: no shape check
validateByPath_None(base, v) == TRUE

\* mutant: holidays.json is checked for being an object only
validateByPath_NoHolidays(base, v) ==
    CASE base = "environments.json" ->
            v.type = "object" /\ "environments" \in v.keys
      [] base = "releases.json" -> v.type = "object"
      [] base = "holidays.json" -> v.type = "object"
      [] OTHER -> TRUE

\* validateByPath(path, data) = nil
validateByPath(base, v) ==
    CASE base = "environments.json" ->
            v.type = "object" /\ "environments" \in v.keys
      [] base = "releases.json" -> v.type = "object"
      [] base = "holidays.json" ->
            v.type = "object" /\ "holidays" \in v.keys
      [] OTHER -> TRUE

\* mutant: every content gets the sentinel fingerprint
computeETag_Sentinel(b) == [tag |-> "0", of |-> [kind |-> "nil"]]

\* mutant: nil is hashed like every other content
computeETag_NoNil(b) == [tag |-> "sha8", of |-> b]

\* computeETag(b): "0" for nil, else the quoted first 8 bytes of sha256(b)
computeETag(b) ==
    IF b = Nil THEN [tag |-> "0", of |-> Nil] ELSE [tag |-> "sha8", of |-> b]

\* the hex line writeChecksum writes: the full sha256 of b
HexSum(b) == [kind |-> "hex", of |-> b]

\* r.Header.Get("If-Match") = ""
NoMatch == [tag |-> "none", of |-> Nil]

\* The X-Max-Backups header: missing, not a number, or an integer.
Hdr(kind, n) == [kind |-> kind, n |-> n]

\* handleEmployees / handleDaysOff / handleHolidays: the maxBackups of a POST
maxBackupsOf(h) ==
    IF h.kind = "int" /\ h.n > 0 THEN h.n ELSE defaultMaxBackups

(* --------------------------- backup directory -------------------------- *)

\* An entry of the backup directory that is a directory itself (empty), and
\* the content of every entry of a directory that does not exist.
Subdir == [kind |-> "dir"]
NoDir == [kind |-> "nodir"]

\* dir maps the names of a directory to their contents
DirExists(dir) == \A x \in DOMAIN dir : dir[x] # NoDir
IsEmptyDir(dir) == \A x \in DOMAIN dir : dir[x] = Absent

\* file.IsDir() of an entry with content c
IsDir(c) == c = Subdir

\* strings.HasPrefix(file.Name(), filePrefix).  For a prefix that is a
\* document's base name the entry's own first segment decides (none of the
\* base names is a prefix of another); "rel" is the beginning of releases,
\* and "releases.1" is releases followed by the timestamp of second 1.
HasPrefix(name, filePrefix) ==
    CASE filePrefix = "rel" -> name.prefix = "releases"
      [] filePrefix = "releases.1" -> name.prefix = "releases" /\ name.ts = 1
      [] OTHER -> name.prefix = filePrefix

PrefixRank(p) ==
    CASE p = "environments" -> 1 [] p = "holidays" -> 2
      [] p = "releases" -> 3 [] OTHER -> 4

\* The order of file names as strings, the order os.ReadDir returns them in:
\* "<p>.<ts>.json" sorts before "<p>.<ts>.json.sha256".
NameBefore(a, b) ==
    \/ PrefixRank(a.prefix) < PrefixRank(b.prefix)
    \/ /\ a.prefix = b.prefix
       /\ \/ a.ts < b.ts
          \/ a.ts = b.ts /\ a.ext = "json" /\ b.ext = "json.sha256"

InNameOrder(S) ==
    LET ord[T \in SUBSET S] ==
          IF T = {} THEN <<>>
          ELSE LET first == CHOOSE a \in T : \A b \in T \ {a} : NameBefore(a, b)
               IN  <<first>> \o ord[T \ {first}]
    IN  ord[S]

\* A []string after the appends of items to a nil slice: still nil when
\* nothing was appended.
Slice(items) == [nil |-> items = <<>>, items |-> items]

\* mutant: a nil slice is returned as it is
NonNil_Keep(backups) == backups

\* listBackups, lines 601-604: if backups == nil { backups = []string{} }
NonNil(backups) ==
    IF backups.nil THEN [nil |-> FALSE, items |-> <<>>] ELSE backups

\* mutant: every file of the directory is listed, whatever the prefix
listBackups_AnyPrefix(dir, filePrefix) ==
    NonNil(Slice(InNameOrder(
        {n \in Names : dir[n] # Absent /\ ~IsDir(dir[n])})))

\* listBackups(filePrefix) on the directory dir (which exists)
listBackups(dir, filePrefix) ==
    NonNil(Slice(InNameOrder(
        {n \in Names : /\ dir[n] # Absent /\ ~IsDir(dir[n])
                       /\ HasPrefix(n, filePrefix)})))

\* json.NewEncoder(w).Encode(backups): null for a nil slice
EncodeList(backups) ==
    IF backups.nil THEN [kind |-> "null"]
    ELSE [kind |-> "array", items |-> backups.items]

\* Path elements that are not names of entries, and filepath.Base of a
\* filename given as the sequence of its elements.
Dot == Name(".", 0, "")
DotDot == Name("..", 0, "")
Root == Name("/", 0, "")
Base(filename) == filename[Len(filename)]

\* The comparator of cleanupOldBackups: every entry has at least three
\* dot-separated parts, so parts[1], the timestamp, decides (newest first).
Less(a, b) == a.ts > b.ts

\* Insertion of x into a list sorted by Less, behind its equals.
InsertSorted(x, s) ==
    LET ins[t \in Seq(Names)] ==
          IF t = <<>> THEN <<x>>
          ELSE IF Less(x, Head(t)) THEN <<x>> \o t
               ELSE <<Head(t)>> \o ins[Tail(t)]
    IN  ins[s]

StableSort(s) ==
    LET sort[t \in Seq(Names)] ==
          IF t = <<>> THEN <<>>
          ELSE InsertSorted(t[Len(t)], sort[SubSeq(t, 1, Len(t) - 1)])
    IN  sort[s]

Range(s) == {s[k] : k \in 1..Len(s)}

Perms(S) ==
    {s \in [1..Cardinality(S) -> S] : \A a \in S : \E k \in 1..Cardinality(S) : s[k] = a}

\* Every order of the entries of S that the comparator allows.
RECURSIVE AnySorted(_)
AnySorted(S) ==
    IF S = {} THEN {<<>>}
    ELSE LET top == {a \in S : \A b \in S : ~Less(b, a)}
         IN  {g \o rest : g \in Perms(top), rest \in AnySorted(S \ top)}

\* sort.Slice is an insertion sort, hence stable, on slices of at most six
\* elements in every Go release; on longer slices it "is not guaranteed to
\* be stable": the order of a backup and its sidecar is then any.
IsInsertionSorted(n) == n <= 6

\* sort.Slice(backups, ...): the orders it can leave the list in
SortOutcomes(s) ==
    IF IsInsertionSorted(Len(s)) THEN {StableSort(s)} ELSE AnySorted(Range(s))

(* ------------------------------ workers -------------------------------- *)

NoName == Name("", 0, "")
NoHdr == Hdr("unset", 0)
NoTag == [tag |-> "unset", of |-> Nil]
NoWrite == [F0 |-> NoTag, F1 |-> NoTag, cond |-> NoTag]

\* A worker between requests.
IdleProc ==
    [pc |-> "idle", op |-> "none", doc |-> "", body |-> Nil, ifMatch |-> NoMatch,
     maxBackups |-> 0, prettyJSON |-> Nil, timestamp |-> 0, origData |-> Nil,
     sum |-> Nil, backups |-> <<>>, i |-> 0, orphan |-> FALSE, target |-> NoName,
     status |-> 0, etag |-> NoTag, out |-> Nil, pre |-> Nil, prev |-> NoWrite,
     warn |-> "none", ioerr |-> FALSE, hdr |-> NoHdr, held |-> NoTag, seen |-> Nil,
     filename |-> <<>>, prefix |-> "", calls |-> 0]

\* The request and its response are over.
Finished(p) == p.pc = "done"

\* mutant: the backup's name leaves the timestamp out
backupPath_Fixed(p) == Name(TrimSuffixJSON(p.doc), 1, "json")

\* backupFilename of the worker's snapshot, and its sidecar
backupPath(p) == Name(TrimSuffixJSON(p.doc), p.timestamp, "json")
sidecarPath(p) == Name(TrimSuffixJSON(p.doc), p.timestamp, "json.sha256")

\* The backup-directory file a worker holds open for writing, between the
\* open and the write of an os.WriteFile.
HasOpen(p, name) ==
    \/ p.pc = "bkwrite" /\ backupPath(p) = name
    \/ p.pc = "sumwrite" /\ sidecarPath(p) = name

\* os.Remove(name) as seen by the workers: a file that is open stays
\* writable, but what is written to it is no longer in the directory.
Unlinked(ps, name) ==
    [x \in Workers |->
        IF HasOpen(ps[x], name) THEN [ps[x] EXCEPT !.orphan = TRUE] ELSE ps[x]]

\* The files as a request finds them.
Files == [docs |-> docs, bdir |-> bdir]

\* snap and lastOk are records kept beside the program for the claims about
\* requests that do not overlap (the files when the request began; the
\* fingerprints before and after the last 200); they are kept when audit is set.
Snapshot == IF audit THEN Files ELSE snap

Init ==
    /\ docs = [d \in Docs |-> Absent]
    /\ bdir = [n \in Names |-> Absent]
    /\ now = 1
    /\ proc = [w \in Workers |-> IdleProc]
    /\ nreq = 0
    /\ audit = TRUE
    /\ snap = [docs |-> [d \in Docs |-> Absent], bdir |-> [n \in Names |-> Absent]]
    /\ lastOk = [d \in Docs |-> NoWrite]

\* The wall clock reaches the next second, up to second last.
ClockTick(last) ==
    /\ now < last
    /\ now' = now + 1
    /\ UNCHANGED <<docs, bdir, proc, nreq, audit, snap, lastOk>>

Tick == ClockTick(MaxTime)

\* mutant: the If-Match check runs without an If-Match header too
Post_AlwaysChecks(w, d, body, ifm, hdr) ==
    /\ proc[w].pc = "idle"
    /\ LET parsed == Unmarshal(body)
           req == [proc[w] EXCEPT !.op = "POST", !.doc = d, !.body = body,
                      !.ifMatch = ifm, !.maxBackups = maxBackupsOf(hdr),
                      !.hdr = hdr, !.pre = docs[d], !.prev = lastOk[d]]
       IN  proc' = [proc EXCEPT ![w] =
             IF ~parsed.ok \/ ~validateByPath(d, parsed.value)
             THEN [req EXCEPT !.pc = "done", !.status = 400]
             ELSE [req EXCEPT !.prettyJSON = MarshalIndent(parsed.value),
                     !.pc = IF docs[d] = Absent THEN "trunc" ELSE "ifmatch"]]
    /\ nreq' = nreq + 1
    /\ snap' = Snapshot
    /\ UNCHANGED <<docs, bdir, now, audit, lastOk>>

\* mutant: the If-Match check is made for a file that does not exist, too
Post_ChecksAbsent(w, d, body, ifm, hdr) ==
    /\ proc[w].pc = "idle"
    /\ LET parsed == Unmarshal(body)
           req == [proc[w] EXCEPT !.op = "POST", !.doc = d, !.body = body,
                      !.ifMatch = ifm, !.maxBackups = maxBackupsOf(hdr),
                      !.hdr = hdr, !.pre = docs[d], !.prev = lastOk[d]]
       IN  proc' = [proc EXCEPT ![w] =
             IF ~parsed.ok \/ ~validateByPath(d, parsed.value)
             THEN [req EXCEPT !.pc = "done", !.status = 400]
             ELSE [req EXCEPT !.prettyJSON = MarshalIndent(parsed.value),
                     !.pc = IF ifm # NoMatch THEN "ifmatch"
                            ELSE IF docs[d] = Absent THEN "trunc" ELSE "now"]]
    /\ nreq' = nreq + 1
    /\ snap' = Snapshot
    /\ UNCHANGED <<docs, bdir, now, audit, lastOk>>

\* mutant: a body whose canonical bytes are the document's is answered 200
\* at once, without backup or write
Post_SkipsUnchanged(w, d, body, ifm, hdr) ==
    /\ proc[w].pc = "idle"
    /\ LET parsed == Unmarshal(body)
           req == [proc[w] EXCEPT !.op = "POST", !.doc = d, !.body = body,
                      !.ifMatch = ifm, !.maxBackups = maxBackupsOf(hdr),
                      !.hdr = hdr, !.pre = docs[d], !.prev = lastOk[d]]
       IN  proc' = [proc EXCEPT ![w] =
             IF ~parsed.ok \/ ~validateByPath(d, parsed.value)
             THEN [req EXCEPT !.pc = "done", !.status = 400]
             ELSE IF docs[d] = MarshalIndent(parsed.value)
             THEN [req EXCEPT !.prettyJSON = MarshalIndent(parsed.value),
                     !.pc = "done", !.status = 200, !.etag = computeETag(docs[d])]
             ELSE [req EXCEPT !.prettyJSON = MarshalIndent(parsed.value),
                     !.pc = IF docs[d] = Absent THEN "trunc"
                            ELSE IF ifm # NoMatch THEN "ifmatch" ELSE "now"]]
    /\ nreq' = nreq + 1
    /\ snap' = Snapshot
    /\ UNCHANGED <<docs, bdir, now, audit, lastOk>>

\* mutant: the If-Match check comes before the body is parsed
Post_PreconditionFirst(w, d, body, ifm, hdr) ==
    /\ proc[w].pc = "idle"
    /\ LET parsed == Unmarshal(body)
           req == [proc[w] EXCEPT !.op = "POST", !.doc = d, !.body = body,
                      !.ifMatch = ifm, !.maxBackups = maxBackupsOf(hdr),
                      !.hdr = hdr, !.pre = docs[d], !.prev = lastOk[d]]
       IN  proc' = [proc EXCEPT ![w] =
             IF docs[d] # Absent /\ ifm # NoMatch /\ computeETag(docs[d]) # ifm
             THEN [req EXCEPT !.pc = "done", !.status = 412,
                              !.etag = computeETag(docs[d])]
             ELSE IF ~parsed.ok \/ ~validateByPath(d, parsed.value)
             THEN [req EXCEPT !.pc = "done", !.status = 400]
             ELSE [req EXCEPT !.prettyJSON = MarshalIndent(parsed.value),
                     !.pc = IF docs[d] = Absent THEN "trunc" ELSE "now"]]
    /\ nreq' = nreq + 1
    /\ snap' = Snapshot
    /\ UNCHANGED <<docs, bdir, now, audit, lastOk>>

\* mutant: the snapshot is taken of a file that does not exist, too
Post_AlwaysSnapshots(w, d, body, ifm, hdr) ==
    /\ proc[w].pc = "idle"
    /\ LET parsed == Unmarshal(body)
           req == [proc[w] EXCEPT !.op = "POST", !.doc = d, !.body = body,
                      !.ifMatch = ifm, !.maxBackups = maxBackupsOf(hdr),
                      !.hdr = hdr, !.pre = docs[d], !.prev = lastOk[d]]
       IN  proc' = [proc EXCEPT ![w] =
             IF ~parsed.ok \/ ~validateByPath(d, parsed.value)
             THEN [req EXCEPT !.pc = "done", !.status = 400]
             ELSE [req EXCEPT !.prettyJSON = MarshalIndent(parsed.value),
                     !.pc = IF docs[d] # Absent /\ ifm # NoMatch THEN "ifmatch"
                            ELSE "now"]]
    /\ nreq' = nreq + 1
    /\ snap' = Snapshot
    /\ UNCHANGED <<docs, bdir, now, audit, lastOk>>

(* updateJSONFileWithBackup, lines 459-492: the body is parsed, validated   *)
(* and pretty-printed (all local), then os.Stat looks for the file.         *)
Post(w, d, body, ifm, hdr) ==
    /\ proc[w].pc = "idle"
    /\ LET parsed == Unmarshal(body)
           req == [proc[w] EXCEPT !.op = "POST", !.doc = d, !.body = body,
                      !.ifMatch = ifm, !.maxBackups = maxBackupsOf(hdr),
                      !.hdr = hdr, !.pre = docs[d], !.prev = lastOk[d]]
       IN  proc' = [proc EXCEPT ![w] =
             IF ~parsed.ok \/ ~validateByPath(d, parsed.value)
             THEN [req EXCEPT !.pc = "done", !.status = 400]
             ELSE [req EXCEPT !.prettyJSON = MarshalIndent(parsed.value),
                     !.pc = IF docs[d] = Absent THEN "trunc"
                            ELSE IF ifm # NoMatch THEN "ifmatch" ELSE "now"]]
    /\ nreq' = nreq + 1
    /\ snap' = Snapshot
    /\ UNCHANGED <<docs, bdir, now, audit, lastOk>>

\* os.ReadFile(path): the bytes, or nil with an error
ReadFile(content) == IF content = Absent THEN Nil ELSE content

\* mutant: the 412 carries the fingerprint of the request's own bytes
IfMatch_OwnTag(w) ==
    /\ proc[w].pc = "ifmatch"
    /\ LET current == ReadFile(docs[proc[w].doc])
       IN  proc' = [proc EXCEPT ![w] =
             IF computeETag(current) # proc[w].ifMatch
             THEN [@ EXCEPT !.pc = "done", !.status = 412,
                                   !.etag = computeETag(proc[w].prettyJSON)]
             ELSE [@ EXCEPT !.pc = "now"]]
    /\ UNCHANGED <<docs, bdir, now, nreq, audit, snap, lastOk>>

\* mutant: a write is rejected when another connection has a write to the
\* same document
IfMatch_Contended(w) ==
    /\ proc[w].pc = "ifmatch"
    /\ LET current == ReadFile(docs[proc[w].doc])
           contended == \E v \in Workers \ {w} :
                          proc[v].op = "POST" /\ proc[v].doc = proc[w].doc
       IN  proc' = [proc EXCEPT ![w] =
             IF contended \/ computeETag(current) # proc[w].ifMatch
             THEN [@ EXCEPT !.pc = "done", !.status = 412,
                                   !.etag = computeETag(current)]
             ELSE [@ EXCEPT !.pc = "now"]]
    /\ UNCHANGED <<docs, bdir, now, nreq, audit, snap, lastOk>>

\* mutant: the 412 carries the fingerprint of no content
IfMatch_SentinelTag(w) ==
    /\ proc[w].pc = "ifmatch"
    /\ LET current == ReadFile(docs[proc[w].doc])
       IN  proc' = [proc EXCEPT ![w] =
             IF computeETag(current) # proc[w].ifMatch
             THEN [@ EXCEPT !.pc = "done", !.status = 412,
                                   !.etag = computeETag(Nil)]
             ELSE [@ EXCEPT !.pc = "now"]]
    /\ UNCHANGED <<docs, bdir, now, nreq, audit, snap, lastOk>>

\* lines 493-501: the If-Match check against the current bytes
IfMatch(w) ==
    /\ proc[w].pc = "ifmatch"
    /\ LET current == ReadFile(docs[proc[w].doc])
       IN  proc' = [proc EXCEPT ![w] =
             IF computeETag(current) # proc[w].ifMatch
             THEN [@ EXCEPT !.pc = "done", !.status = 412,
                                   !.etag = computeETag(current)]
             ELSE [@ EXCEPT !.pc = "now"]]
    /\ UNCHANGED <<docs, bdir, now, nreq, audit, snap, lastOk>>

\* line 504: timestamp := time.Now().Format("20060102-150405")
Now(w) ==
    /\ proc[w].pc = "now"
    /\ proc' = [proc EXCEPT ![w] = [@ EXCEPT !.timestamp = now, !.pc = "readorig"]]
    /\ UNCHANGED <<docs, bdir, now, nreq, audit, snap, lastOk>>

\* lines 509-511: origData, err := os.ReadFile(filePath)
ReadOrig(w) ==
    /\ proc[w].pc = "readorig"
    /\ proc' = [proc EXCEPT ![w] =
          IF docs[proc[w].doc] = Absent THEN [@ EXCEPT !.pc = "trunc"]
          ELSE [@ EXCEPT !.origData = docs[proc[w].doc], !.pc = "bktrunc"]]
    /\ UNCHANGED <<docs, bdir, now, nreq, audit, snap, lastOk>>

\* mutant: the backup is the live file renamed (updateJSONFile, line 439)
BackupTrunc_Rename(w) ==
    /\ proc[w].pc = "bktrunc"
    /\ bdir' = [bdir EXCEPT ![backupPath(proc[w])] = docs[proc[w].doc]]
    /\ docs' = [docs EXCEPT ![proc[w].doc] = Absent]
    /\ proc' = [proc EXCEPT ![w] = [@ EXCEPT !.pc = "sumread", !.orphan = FALSE]]
    /\ UNCHANGED <<now, nreq, audit, snap, lastOk>>

\* mutant: the backup file is opened with O_EXCL, an existing one is kept
BackupTrunc_Excl(w) ==
    /\ proc[w].pc = "bktrunc"
    /\ IF bdir[backupPath(proc[w])] # Absent
       THEN /\ bdir' = bdir
            /\ proc' = [proc EXCEPT ![w] = [@ EXCEPT !.pc = "trunc"]]
       ELSE /\ bdir' = [bdir EXCEPT ![backupPath(proc[w])] = Empty]
            /\ proc' = [proc EXCEPT ![w] = [@ EXCEPT !.pc = "bkwrite", !.orphan = FALSE]]
    /\ UNCHANGED <<docs, now, nreq, audit, snap, lastOk>>

\* line 513, os.WriteFile(backupPath, ...): the open with O_CREATE|O_TRUNC
BackupTrunc(w) ==
    /\ proc[w].pc = "bktrunc"
    /\ bdir' = [bdir EXCEPT ![backupPath(proc[w])] = Empty]
    /\ proc' = [proc EXCEPT ![w] = [@ EXCEPT !.pc = "bkwrite", !.orphan = FALSE]]
    /\ UNCHANGED <<docs, now, nreq, audit, snap, lastOk>>

\* mutant: the backup gets the request's new bytes
BackupWrite_NewBytes(w) ==
    /\ proc[w].pc = "bkwrite"
    /\ bdir' = IF proc[w].orphan THEN bdir
               ELSE [bdir EXCEPT ![backupPath(proc[w])] =
                                    Overwritten(@, proc[w].prettyJSON)]
    /\ proc' = [proc EXCEPT ![w] = [@ EXCEPT !.pc = "sumread", !.orphan = FALSE]]
    /\ UNCHANGED <<docs, now, nreq, audit, snap, lastOk>>

\* line 513, os.WriteFile(backupPath, origData, 0644): the write
BackupWrite(w) ==
    /\ proc[w].pc = "bkwrite"
    /\ bdir' = IF proc[w].orphan THEN bdir
               ELSE [bdir EXCEPT ![backupPath(proc[w])] =
                                    Overwritten(@, proc[w].origData)]
    /\ proc' = [proc EXCEPT ![w] = [@ EXCEPT !.pc = "sumread", !.orphan = FALSE]]
    /\ UNCHANGED <<docs, now, nreq, audit, snap, lastOk>>

\* writeChecksum, lines 551-554: b, err := os.ReadFile(path)
SumRead(w) ==
    /\ proc[w].pc = "sumread"
    /\ proc' = [proc EXCEPT ![w] =
          IF bdir[backupPath(@)] = Absent THEN [@ EXCEPT !.pc = "list"]
          ELSE [@ EXCEPT !.sum = bdir[backupPath(proc[w])], !.pc = "sumtrunc"]]
    /\ UNCHANGED <<docs, bdir, now, nreq, audit, snap, lastOk>>

\* writeChecksum, line 556: os.WriteFile(path+".sha256", ...), the open
SumTrunc(w) ==
    /\ proc[w].pc = "sumtrunc"
    /\ bdir' = [bdir EXCEPT ![sidecarPath(proc[w])] = Empty]
    /\ proc' = [proc EXCEPT ![w] = [@ EXCEPT !.pc = "sumwrite", !.orphan = FALSE]]
    /\ UNCHANGED <<docs, now, nreq, audit, snap, lastOk>>

\* writeChecksum, line 556: the write of the hex sum
SumWrite(w) ==
    /\ proc[w].pc = "sumwrite"
    /\ bdir' = IF proc[w].orphan THEN bdir
               ELSE [bdir EXCEPT ![sidecarPath(proc[w])] = HexSum(proc[w].sum)]
    /\ proc' = [proc EXCEPT ![w] =
                  [@ EXCEPT !.pc = "list", !.orphan = FALSE, !.sum = Nil]]
    /\ UNCHANGED <<docs, now, nreq, audit, snap, lastOk>>

\* mutant: the deletion loop starts one entry late
List_OneLate(w) ==
    /\ proc[w].pc = "list"
    /\ LET backups == listBackups(bdir, TrimSuffixJSON(proc[w].doc)).items
       IN  IF Len(backups) <= proc[w].maxBackups + 1
           THEN proc' = [proc EXCEPT ![w] = [@ EXCEPT !.pc = "trunc"]]
           ELSE \E sorted \in SortOutcomes(backups) :
                  proc' = [proc EXCEPT ![w] =
                     [@ EXCEPT !.backups = sorted, !.i = proc[w].maxBackups + 2,
                               !.pc = "remove"]]
    /\ UNCHANGED <<docs, bdir, now, nreq, audit, snap, lastOk>>

\* cleanupOldBackups, lines 609-637: list, compare with maxBackups, sort
List(w) ==
    /\ proc[w].pc = "list"
    /\ LET backups == listBackups(bdir, TrimSuffixJSON(proc[w].doc)).items
       IN  IF Len(backups) <= proc[w].maxBackups
           THEN proc' = [proc EXCEPT ![w] = [@ EXCEPT !.pc = "trunc"]]
           ELSE \E sorted \in SortOutcomes(backups) :
                  proc' = [proc EXCEPT ![w] =
                     [@ EXCEPT !.backups = sorted, !.i = proc[w].maxBackups + 1,
                               !.pc = "remove"]]
    /\ UNCHANGED <<docs, bdir, now, nreq, audit, snap, lastOk>>

\* mutant: an os.Remove that fails is tried again
Remove_Retry(w) ==
    /\ proc[w].pc = "remove"
    /\ LET p == proc[w]
           victim == p.backups[p.i]
       IN  IF bdir[victim] = Absent
           THEN UNCHANGED <<proc, bdir>>
           ELSE /\ bdir' = [bdir EXCEPT ![victim] = Absent]
                /\ proc' = [Unlinked(proc, victim) EXCEPT ![w] =
                      [@ EXCEPT !.i = p.i + 1,
                          !.pc = IF p.i + 1 > Len(p.backups) THEN "trunc" ELSE "remove"]]
    /\ UNCHANGED <<docs, now, nreq, audit, snap, lastOk>>

\* cleanupOldBackups, lines 640-647: os.Remove(backups[i]); an error ends
\* the loop (and is only logged by the caller)
Remove(w) ==
    /\ proc[w].pc = "remove"
    /\ LET p == proc[w]
           victim == p.backups[p.i]
       IN  IF bdir[victim] = Absent
           THEN /\ proc' = [proc EXCEPT ![w] = [@ EXCEPT !.pc = "trunc"]]
                /\ bdir' = bdir
           ELSE /\ bdir' = [bdir EXCEPT ![victim] = Absent]
                /\ proc' = [Unlinked(proc, victim) EXCEPT ![w] =
                      [@ EXCEPT !.i = p.i + 1,
                          !.pc = IF p.i + 1 > Len(p.backups) THEN "trunc" ELSE "remove"]]
    /\ UNCHANGED <<docs, now, nreq, audit, snap, lastOk>>

\* line 528, os.WriteFile(filePath, ...): the open with O_CREATE|O_TRUNC
Trunc(w) ==
    /\ proc[w].pc = "trunc"
    /\ docs' = [docs EXCEPT ![proc[w].doc] = Empty]
    /\ proc' = [proc EXCEPT ![w] =
                  [@ EXCEPT !.pc = "write", !.backups = <<>>, !.i = 0]]
    /\ UNCHANGED <<bdir, now, nreq, audit, snap, lastOk>>

\* lines 528-537: the write of prettyJSON, then the 200 with the new ETag
Write(w) ==
    /\ proc[w].pc = "write"
    /\ docs' = [docs EXCEPT ![proc[w].doc] = Overwritten(@, proc[w].prettyJSON)]
    /\ proc' = [proc EXCEPT ![w] = [@ EXCEPT !.pc = "done", !.status = 200,
                                       !.etag = computeETag(proc[w].prettyJSON),
                                       !.origData = Nil]]
    /\ lastOk' = IF ~audit THEN lastOk
                 ELSE [lastOk EXCEPT ![proc[w].doc] =
                         [F0 |-> computeETag(ReadFile(proc[w].pre)),
                          F1 |-> computeETag(proc[w].prettyJSON),
                          cond |-> proc[w].ifMatch]]
    /\ UNCHANGED <<bdir, now, nreq, audit, snap>>

\* mutant: the GET of a missing document creates it with the text {}
Get_Creates(w, d) ==
    /\ proc[w].pc = "idle"
    /\ LET req == [IdleProc EXCEPT !.op = "GET", !.doc = d, !.pre = docs[d]]
       IN  IF docs[d] = Absent
           THEN /\ proc' = [proc EXCEPT ![w] =
                      [req EXCEPT !.pc = "done", !.status = 200,
                                  !.out = Text("compact", EmptyObject)]]
                /\ docs' = [docs EXCEPT ![d] = Text("compact", EmptyObject)]
           ELSE /\ proc' = [proc EXCEPT ![w] = [req EXCEPT !.pc = "gread"]]
                /\ docs' = docs
    /\ nreq' = nreq + 1
    /\ snap' = Snapshot
    /\ UNCHANGED <<bdir, now, audit, lastOk>>

\* serveJSONFile, lines 378-382: os.Stat, and "{}" when the file is missing
Get(w, d) ==
    /\ proc[w].pc = "idle"
    /\ LET req == [IdleProc EXCEPT !.op = "GET", !.doc = d, !.pre = docs[d]]
       IN  proc' = [proc EXCEPT ![w] =
             IF docs[d] = Absent
             THEN [req EXCEPT !.pc = "done", !.status = 200,
                              !.out = Text("compact", EmptyObject)]
             ELSE [req EXCEPT !.pc = "gread"]]
    /\ nreq' = nreq + 1
    /\ snap' = Snapshot
    /\ UNCHANGED <<docs, bdir, now, audit, lastOk>>

\* serveJSONFile, lines 385-392: os.ReadFile and the answer
GetRead(w) ==
    /\ proc[w].pc = "gread"
    /\ proc' = [proc EXCEPT ![w] =
          IF docs[proc[w].doc] = Absent THEN [@ EXCEPT !.pc = "done", !.status = 500]
          ELSE [@ EXCEPT !.pc = "done", !.status = 200, !.out = docs[proc[w].doc]]]
    /\ UNCHANGED <<docs, bdir, now, nreq, audit, snap, lastOk>>

\* mutant: the DELETE of a backup takes its sidecar along
Delete_WithSidecar(w, name) ==
    /\ proc[w].pc = "idle"
    /\ LET req == [IdleProc EXCEPT !.op = "DELETE", !.target = name, !.pc = "done"]
           side == Name(name.prefix, name.ts, "json.sha256")
       IN  IF bdir[name] = Absent
           THEN /\ proc' = [proc EXCEPT ![w] = [req EXCEPT !.status = 500]]
                /\ bdir' = bdir
           ELSE /\ bdir' = [bdir EXCEPT ![name] = Absent, ![side] = Absent]
                /\ proc' = [Unlinked(proc, name) EXCEPT ![w] = [req EXCEPT !.status = 200]]
    /\ nreq' = nreq + 1
    /\ snap' = Snapshot
    /\ UNCHANGED <<docs, now, audit, lastOk>>

\* handleBackups, lines 323-350: DELETE of the backup-directory entry name
Delete(w, name) ==
    /\ proc[w].pc = "idle"
    /\ LET req == [IdleProc EXCEPT !.op = "DELETE", !.target = name, !.pc = "done"]
       IN  IF bdir[name] = Absent
           THEN /\ proc' = [proc EXCEPT ![w] = [req EXCEPT !.status = 500]]
                /\ bdir' = bdir
           ELSE /\ bdir' = [bdir EXCEPT ![name] = Absent]
                /\ proc' = [Unlinked(proc, name) EXCEPT ![w] = [req EXCEPT !.status = 200]]
    /\ nreq' = nreq + 1
    /\ snap' = Snapshot
    /\ UNCHANGED <<docs, now, audit, lastOk>>

\* handleBackups, lines 323-350: DELETE with any filename.  os.Remove of
\* filepath.Join(backupDir, filepath.Base(filename)) removes a file or an
\* empty directory; Join cleans the path, so the base names "." and "/"
\* give the backup directory and ".." gives the data directory.
BackupDelete(w, filename) ==
    /\ proc[w].pc = "idle"
    /\ LET fname == IF filename = <<>> THEN NoName ELSE Base(filename)
           req == [IdleProc EXCEPT !.op = "DELETE", !.filename = filename,
                                   !.target = fname, !.pc = "done"]
       IN  IF filename = <<>>
           THEN /\ proc' = [proc EXCEPT ![w] = [req EXCEPT !.status = 400]]
                /\ UNCHANGED <<docs, bdir>>
           ELSE IF fname \in Names /\ bdir[fname] \notin {Absent, NoDir}
           THEN /\ bdir' = [bdir EXCEPT ![fname] = Absent]
                /\ proc' = [Unlinked(proc, fname) EXCEPT ![w] = [req EXCEPT !.status = 200]]
                /\ docs' = docs
           ELSE IF fname \in {Dot, Root} /\ DirExists(bdir) /\ IsEmptyDir(bdir)
           THEN /\ bdir' = [n \in Names |-> NoDir]
                /\ proc' = [proc EXCEPT ![w] = [req EXCEPT !.status = 200]]
                /\ docs' = docs
           ELSE IF /\ fname = DotDot /\ ~DirExists(bdir)
                   /\ DirExists(docs) /\ IsEmptyDir(docs)
           THEN /\ docs' = [d \in Docs |-> NoDir]
                /\ proc' = [proc EXCEPT ![w] = [req EXCEPT !.status = 200]]
                /\ bdir' = bdir
           ELSE /\ proc' = [proc EXCEPT ![w] = [req EXCEPT !.status = 500]]
                /\ UNCHANGED <<docs, bdir>>
    /\ nreq' = nreq + 1
    /\ snap' = Snapshot
    /\ UNCHANGED <<now, audit, lastOk>>

\* mutant: a fetched backup is removed from the backup directory
BackupFetch_Consumes(w, filename) ==
    /\ proc[w].pc = "idle"
    /\ filename # <<>>
    /\ LET fname == Base(filename)
           req == [IdleProc EXCEPT !.op = "FETCH", !.filename = filename,
                                   !.target = fname, !.pc = "done"]
           found == fname \in Names /\ bdir[fname] \notin {Absent, NoDir, Subdir}
       IN  /\ proc' = [proc EXCEPT ![w] =
                 IF found
                 THEN [req EXCEPT !.status = 200,
                         !.out = [kind |-> "backup", filename |-> fname,
                                  checksum |-> computeETag(bdir[fname]),
                                  content |-> bdir[fname]]]
                 ELSE [req EXCEPT !.status = 500]]
           /\ bdir' = IF found THEN [bdir EXCEPT ![fname] = Absent] ELSE bdir
    /\ nreq' = nreq + 1
    /\ snap' = Snapshot
    /\ UNCHANGED <<docs, now, audit, lastOk>>

\* handleBackups, lines 289-305: GET with a filename; os.ReadFile of
\* filepath.Join(backupDir, filepath.Base(filename)) fails on a directory
BackupFetch(w, filename) ==
    /\ proc[w].pc = "idle"
    /\ filename # <<>>
    /\ LET fname == Base(filename)
           req == [IdleProc EXCEPT !.op = "FETCH", !.filename = filename,
                                   !.target = fname, !.pc = "done"]
       IN  proc' = [proc EXCEPT ![w] =
             IF fname \in Names /\ bdir[fname] \notin {Absent, NoDir, Subdir}
             THEN [req EXCEPT !.status = 200,
                     !.out = [kind |-> "backup", filename |-> fname,
                              checksum |-> computeETag(bdir[fname]),
                              content |-> bdir[fname]]]
             ELSE [req EXCEPT !.status = 500]]
    /\ nreq' = nreq + 1
    /\ snap' = Snapshot
    /\ UNCHANGED <<docs, bdir, now, audit, lastOk>>

\* handleBackups, lines 307-320: GET with a prefix (and no filename)
BackupList(w, filePrefix) ==
    /\ proc[w].pc = "idle"
    /\ LET req == [IdleProc EXCEPT !.op = "LIST", !.prefix = filePrefix, !.pc = "done"]
       IN  proc' = [proc EXCEPT ![w] =
             IF filePrefix = "" THEN [req EXCEPT !.status = 400]
             ELSE IF ~DirExists(bdir) THEN [req EXCEPT !.status = 500]
             ELSE [req EXCEPT !.status = 200,
                     !.out = EncodeList(listBackups(bdir, filePrefix))]]
    /\ nreq' = nreq + 1
    /\ snap' = Snapshot
    /\ UNCHANGED <<docs, bdir, now, audit, lastOk>>

\* handleBackupSettings, lines 360-369: GET answers the two constants
BackupSettings(w) ==
    /\ proc[w].pc = "idle"
    /\ proc' = [proc EXCEPT ![w] =
          [IdleProc EXCEPT !.op = "SETTINGS", !.pc = "done", !.status = 200,
             !.out = [kind |-> "settings", maxBackups |-> defaultMaxBackups,
                      backupDir |-> "./data/backups"]]]
    /\ nreq' = nreq + 1
    /\ snap' = Snapshot
    /\ UNCHANGED <<docs, bdir, now, audit, lastOk>>

\* the endpoints whose handlers switch on the method
Endpoints == Docs \cup {"backups", "backup-settings"}

\* The default branch of a handler's switch (lines 108-110, 130-132,
\* 279-281, 352-354, 370-372): a method it does not serve is answered 405.
NotAllowed(w, endpoint) ==
    /\ proc[w].pc = "idle"
    /\ proc' = [proc EXCEPT ![w] =
          [IdleProc EXCEPT !.op = "OTHER", !.prefix = endpoint,
                           !.pc = "done", !.status = 405]]
    /\ nreq' = nreq + 1
    /\ snap' = Snapshot
    /\ UNCHANGED <<docs, bdir, now, audit, lastOk>>

\* The response is out; the worker takes the next request.
Return(w) ==
    /\ proc[w].pc = "done"
    /\ proc' = [proc EXCEPT ![w] = IdleProc]
    /\ UNCHANGED <<docs, bdir, now, nreq, audit, snap, lastOk>>

(* ----------------------------- ticket search --------------------------- *)

\* data/jira-config.json as an object.  A field is "missing", a "number"
\* (any value that is not a string), "empty" (the string "") or "set";
\* rest stands for baseUrl, jql and maxResults: "missing", "badurl" or "ok".
JiraObject(apiToken, username, rest) ==
    [type |-> "object",
     keys |-> {k \in {"apiToken", "username", "baseUrl"} :
                 \/ k = "apiToken" /\ apiToken # "missing"
                 \/ k = "username" /\ username # "missing"
                 \/ k = "baseUrl" /\ rest # "missing"},
     rev |-> 0,
     apiToken |-> apiToken, username |-> username, rest |-> rest]

\* v, ok := config[key].(string), for the field value f
IsString(f) == f \in {"empty", "set"}

\* handleJiraTickets, lines 136-165: the configuration is read and parsed,
\* and the credentials are looked at; lines 168-178: the type assertions on
\* the other fields (a panic when one is missing, which net/http answers
\* by closing the connection) and jira.NewClient
JiraTickets(w) ==
    /\ proc[w].pc = "idle"
    /\ LET configData == docs["jira-config.json"]
           parsed == Unmarshal(configData)
           config == parsed.value
           req == [IdleProc EXCEPT !.op = "JIRA", !.pre = configData, !.pc = "done"]
       IN  proc' = [proc EXCEPT ![w] =
             IF configData = Absent THEN [req EXCEPT !.status = 500]
             ELSE IF ~parsed.ok \/ config.type # "object"
             THEN [req EXCEPT !.status = 500]
             ELSE IF \/ ~IsString(config.apiToken) \/ ~IsString(config.username)
                     \/ config.apiToken = "empty" \/ config.username = "empty"
             THEN [req EXCEPT !.status = 200, !.out = EncodeList(NonNil(Slice(<<>>)))]
             ELSE IF config.rest = "missing" THEN [req EXCEPT !.warn = "panic"]
             ELSE IF config.rest = "badurl" THEN [req EXCEPT !.status = 500]
             ELSE [req EXCEPT !.pc = "jauth"]]
    /\ nreq' = nreq + 1
    /\ snap' = Snapshot
    /\ UNCHANGED <<docs, bdir, now, audit, lastOk>>

\* lines 181-187: client.Authentication.AcquireSessionCookie, a call of the
\* tracker that succeeds or fails
JiraAuth(w) ==
    /\ proc[w].pc = "jauth"
    /\ \E ok \in BOOLEAN :
         proc' = [proc EXCEPT ![w] =
            IF ok THEN [@ EXCEPT !.calls = proc[w].calls + 1, !.pc = "jsearch"]
            ELSE [@ EXCEPT !.calls = proc[w].calls + 1, !.pc = "done", !.status = 401]]
    /\ UNCHANGED <<docs, bdir, now, nreq, audit, snap, lastOk>>

\* lines 190-259: client.Issue.Search, a second call of the tracker, and
\* the answer: the tickets found (none: []), or 500
JiraSearch(w) ==
    /\ proc[w].pc = "jsearch"
    /\ \E tickets \in {<<>>, <<"T-1">>}, ok \in BOOLEAN :
         proc' = [proc EXCEPT ![w] =
            IF ok THEN [@ EXCEPT !.calls = proc[w].calls + 1, !.pc = "done",
                         !.status = 200,
                         !.out = [kind |-> "array", items |-> tickets]]
            ELSE [@ EXCEPT !.calls = proc[w].calls + 1, !.pc = "done", !.status = 500]]
    /\ UNCHANGED <<docs, bdir, now, nreq, audit, snap, lastOk>>

(* --------------------------- the bundled client ------------------------ *)

\* backupConfig.maxBackups of the client, as shipped
clientMaxBackups == 3

\* saveData / handleRestore: the client has the response of its GET and
\* takes headers.get('ETag') || '' as the If-Match of the POST to come
\* (held); seen is the document that GET returned.
ClientHeaders(w) ==
    /\ proc[w].pc = "done" /\ proc[w].op = "GET"
    /\ proc' = [proc EXCEPT ![w] =
          [IdleProc EXCEPT
              !.held = IF proc[w].etag = NoTag THEN NoMatch ELSE proc[w].etag,
              !.seen = proc[w].out]]
    /\ UNCHANGED <<docs, bdir, now, nreq, audit, snap, lastOk>>

\* saveData: the POST of the edited data, with If-Match and X-Max-Backups
ClientSave(w, d, body) ==
    /\ proc[w].held # NoTag
    /\ Post(w, d, body, proc[w].held, Hdr("int", clientMaxBackups))

\* handleRestore: the POST of the content of a backup, with If-Match
ClientRestore(w, d) ==
    /\ proc[w].held # NoTag
    /\ \E n \in Names :
          /\ n.prefix = TrimSuffixJSON(d) /\ n.ext = "json" /\ bdir[n].kind = "json"
          /\ Post(w, d, bdir[n], proc[w].held, Hdr("missing", 0))

\* handleBackupNow: the POST of the text the GET returned, with If-Match and
\* X-Max-Backups; the text of a failed GET is not JSON
ClientBackupNow(w, d) ==
    /\ proc[w].held # NoTag
    /\ Post(w, d, IF proc[w].seen = Nil THEN Garbage ELSE proc[w].seen,
            proc[w].held, Hdr("int", clientMaxBackups))

\* handleRestore, lines 1384-1388: the client has a 412 and takes its ETag
\* (held) to repeat the write; seen is the document the rejected request
\* found, doc and body are the write to repeat.
ClientConflict(w) ==
    /\ proc[w].pc = "done" /\ proc[w].op = "POST" /\ proc[w].status = 412
    /\ proc' = [proc EXCEPT ![w] =
          [IdleProc EXCEPT !.held = proc[w].etag, !.seen = proc[w].pre,
                           !.doc = proc[w].doc, !.body = proc[w].body]]
    /\ UNCHANGED <<docs, bdir, now, nreq, audit, snap, lastOk>>

\* the same write again, with If-Match = the ETag of the 412
ClientRetry(w) ==
    /\ proc[w].held # NoTag
    /\ Post(w, proc[w].doc, proc[w].body, proc[w].held, Hdr("missing", 0))

(* ----------------------------- I/O errors ------------------------------ *)

\* The error branches of the file accesses of updateJSONFileWithBackup: a
\* call of the os package returns an error (permissions, a full disk, an
\* I/O error).  warn records the step of the backup that was only logged.

\* lines 509-511: os.ReadFile(filePath) fails; logged, no backup is taken
ReadOrigFail(w) ==
    /\ proc[w].pc = "readorig"
    /\ proc' = [proc EXCEPT ![w] = [@ EXCEPT !.pc = "trunc", !.warn = "read"]]
    /\ UNCHANGED <<docs, bdir, now, nreq, audit, snap, lastOk>>

\* mutant: a backup that cannot be opened ends the request with 500
BackupOpenFail_Abort(w) ==
    /\ proc[w].pc = "bktrunc"
    /\ proc' = [proc EXCEPT ![w] =
                  [@ EXCEPT !.pc = "done", !.status = 500, !.warn = "backup"]]
    /\ UNCHANGED <<docs, bdir, now, nreq, audit, snap, lastOk>>

\* lines 513-514: os.WriteFile(backupPath, ...) fails in its open; logged,
\* neither sidecar nor rotation follow
BackupOpenFail(w) ==
    /\ proc[w].pc = "bktrunc"
    /\ proc' = [proc EXCEPT ![w] = [@ EXCEPT !.pc = "trunc", !.warn = "backup"]]
    /\ UNCHANGED <<docs, bdir, now, nreq, audit, snap, lastOk>>

\* lines 513-514: os.WriteFile(backupPath, ...) fails in its write, the file
\* is left empty or with a part of the bytes
BackupWriteFail(w) ==
    /\ proc[w].pc = "bkwrite"
    /\ \E left \in {Empty, Partial(proc[w].origData)} :
          bdir' = [bdir EXCEPT ![backupPath(proc[w])] = left]
    /\ proc' = [proc EXCEPT ![w] = [@ EXCEPT !.pc = "trunc", !.warn = "backup"]]
    /\ UNCHANGED <<docs, now, nreq, audit, snap, lastOk>>

\* writeChecksum, lines 551-554: os.ReadFile(path) fails, writeChecksum
\* returns; the rotation follows
SumReadFail(w) ==
    /\ proc[w].pc = "sumread"
    /\ proc' = [proc EXCEPT ![w] = [@ EXCEPT !.pc = "list", !.warn = "sidecar"]]
    /\ UNCHANGED <<docs, bdir, now, nreq, audit, snap, lastOk>>

\* writeChecksum, line 556: os.WriteFile(path+".sha256", ...) fails in its
\* open; the error is dropped
SumOpenFail(w) ==
    /\ proc[w].pc = "sumtrunc"
    /\ proc' = [proc EXCEPT ![w] =
                  [@ EXCEPT !.pc = "list", !.sum = Nil, !.warn = "sidecar"]]
    /\ UNCHANGED <<docs, bdir, now, nreq, audit, snap, lastOk>>

\* writeChecksum, line 556: os.WriteFile(path+".sha256", ...) fails in its
\* write; the sidecar is left empty
SumWriteFail(w) ==
    /\ proc[w].pc = "sumwrite"
    /\ proc' = [proc EXCEPT ![w] =
                  [@ EXCEPT !.pc = "list", !.sum = Nil, !.warn = "sidecar"]]
    /\ UNCHANGED <<docs, bdir, now, nreq, audit, snap, lastOk>>

\* cleanupOldBackups, lines 614-617: listBackups fails (os.ReadDir); the
\* caller logs it, line 521
ListFail(w) ==
    /\ proc[w].pc = "list"
    /\ proc' = [proc EXCEPT ![w] = [@ EXCEPT !.pc = "trunc", !.warn = "rotation"]]
    /\ UNCHANGED <<docs, bdir, now, nreq, audit, snap, lastOk>>

\* cleanupOldBackups, lines 644-646: os.Remove fails, the loop ends; the
\* caller logs it, line 521
RemoveFail(w) ==
    /\ proc[w].pc = "remove"
    /\ proc' = [proc EXCEPT ![w] = [@ EXCEPT !.pc = "trunc", !.warn = "rotation"]]
    /\ UNCHANGED <<docs, bdir, now, nreq, audit, snap, lastOk>>

\* mutant: a primary write that cannot be opened takes the snapshot back
OpenFail_Rollback(w) ==
    /\ proc[w].pc = "trunc"
    /\ bdir' = IF proc[w].timestamp = 0 THEN bdir
               ELSE [bdir EXCEPT ![backupPath(proc[w])] = Absent,
                                 ![sidecarPath(proc[w])] = Absent]
    /\ proc' = [proc EXCEPT ![w] =
                  [@ EXCEPT !.pc = "done", !.status = 500, !.ioerr = TRUE,
                            !.backups = <<>>, !.i = 0, !.origData = Nil]]
    /\ UNCHANGED <<docs, now, nreq, audit, snap, lastOk>>

\* lines 528-531: os.WriteFile(filePath, ...) fails in its open: 500, the
\* document is as it was
OpenFail(w) ==
    /\ proc[w].pc = "trunc"
    /\ proc' = [proc EXCEPT ![w] =
                  [@ EXCEPT !.pc = "done", !.status = 500, !.ioerr = TRUE,
                            !.backups = <<>>, !.i = 0, !.origData = Nil]]
    /\ UNCHANGED <<docs, bdir, now, nreq, audit, snap, lastOk>>

\* lines 528-531: os.WriteFile(filePath, ...) fails in its write, after the
\* open has truncated the document: 500, the document is left empty or
\* with a part of the new bytes
WriteFail(w) ==
    /\ proc[w].pc = "write"
    /\ \E left \in {Empty, Partial(proc[w].prettyJSON)} :
          docs' = [docs EXCEPT ![proc[w].doc] = left]
    /\ proc' = [proc EXCEPT ![w] =
                  [@ EXCEPT !.pc = "done", !.status = 500, !.ioerr = TRUE,
                            !.origData = Nil]]
    /\ UNCHANGED <<bdir, now, nreq, audit, snap, lastOk>>

Fail(w) ==
    \/ ReadOrigFail(w)
    \/ BackupOpenFail(w) \/ BackupWriteFail(w)
    \/ SumReadFail(w) \/ SumOpenFail(w) \/ SumWriteFail(w)
    \/ ListFail(w) \/ RemoveFail(w)
    \/ OpenFail(w) \/ WriteFail(w)

(* --------------------------- specifications ---------------------------- *)

\* the largest X-Max-Backups value a client sends
MaxHeader == 2

Hdrs == {Hdr("missing", 0)} \cup {Hdr("int", n) : n \in 0..MaxHeader}

\* If-Match values: none, the sentinel, the fingerprints of two documents
IfMatches ==
    {NoMatch, computeETag(Nil),
     computeETag(MarshalIndent(EnvV1)), computeETag(MarshalIndent(EnvV2))}

AllIdle == \A w \in Workers : proc[w].pc = "idle"

Step(w) ==
    \/ IfMatch(w) \/ Now(w) \/ ReadOrig(w)
    \/ BackupTrunc(w) \/ BackupWrite(w)
    \/ SumRead(w) \/ SumTrunc(w) \/ SumWrite(w)
    \/ List(w) \/ Remove(w)
    \/ Trunc(w) \/ Write(w)
    \/ GetRead(w)
    \/ Return(w)

\* the entries of the backup directory that belong to the documents D
NamesOf(D) == {n \in Names : \E d \in D : n.prefix = TrimSuffixJSON(d)}

\* One request at a time, on one worker.
SeqDocs == {"environments.json"}

SeqStart(w) ==
    /\ nreq < MaxReqs
    /\ \/ \E d \in SeqDocs, body \in Bodies, ifm \in IfMatches, hdr \in Hdrs :
             Post(w, d, body, ifm, hdr)
       \/ \E d \in SeqDocs : Get(w, d)
       \/ \E name \in NamesOf(SeqDocs) : Delete(w, name)

SeqNext == Tick \/ SeqStart("w1") \/ Step("w1")

SeqSpec == Init /\ [][SeqNext]_vars

\* One request at a time, and every file access of a POST can fail.
MaxFaultReqs == 3
\* the clock shows seconds 1..MaxFaultTime in that specification
MaxFaultTime == 2

FaultBodies == {Garbage, Text("indent2", EnvV1), Text("compact", EnvV2)}
FaultMatches == {NoMatch, computeETag(MarshalIndent(EnvV1))}
FaultHdrs == {Hdr("missing", 0), Hdr("int", 1)}

FaultStart(w) ==
    /\ nreq < MaxFaultReqs
    /\ \/ \E d \in SeqDocs, body \in FaultBodies, ifm \in FaultMatches, hdr \in FaultHdrs :
             Post(w, d, body, ifm, hdr)
       \/ \E d \in SeqDocs : Get(w, d)

FaultTick == ClockTick(MaxFaultTime)

FaultNext == FaultTick \/ FaultStart("w1") \/ Step("w1") \/ Fail("w1")

\* as Init, without the records of snap and lastOk
FaultInit ==
    /\ docs = [d \in Docs |-> Absent]
    /\ bdir = [n \in Names |-> Absent]
    /\ now = 1
    /\ proc = [w \in Workers |-> IdleProc]
    /\ nreq = 0
    /\ audit = FALSE
    /\ snap = [docs |-> docs, bdir |-> bdir]
    /\ lastOk = [d \in Docs |-> NoWrite]

FaultSpec == FaultInit /\ [][FaultNext]_vars

\* One request at a time, with every form of the X-Max-Backups header.
MaxHdrReqs == 3

HdrBodies == {Text("indent2", EnvV1), Text("compact", EnvV2)}

\* missing, not a number, and the integers from -1
AllHdrs ==
    {Hdr("missing", 0), Hdr("nan", 0)} \cup {Hdr("int", n) : n \in -1..MaxHeader}

HdrStart(w) ==
    /\ nreq < MaxHdrReqs
    /\ \/ \E d \in SeqDocs, body \in HdrBodies, ifm \in FaultMatches, hdr \in AllHdrs :
             Post(w, d, body, ifm, hdr)
       \/ \E d \in SeqDocs : Get(w, d)

HdrNext == FaultTick \/ HdrStart("w1") \/ Step("w1")

HdrSpec == Init /\ [][HdrNext]_vars

\* The two pure functions, called on every name and content.
MaxCalls == 2

\* base names of document files: the three with a shape rule, and another
FnNames == {"environments.json", "releases.json", "holidays.json", "jira-config.json"}

Obj(keys) == [type |-> "object", keys |-> keys, rev |-> 1]

\* what json.Unmarshal yields: objects over the two keys the rules name,
\* the empty object, an array, a string, null
FnValues ==
    {Obj(K) : K \in SUBSET {"environments", "holidays"}}
        \cup {EmptyObject, ArrayV,
              [type |-> "string", keys |-> {}, rev |-> 1],
              [type |-> "null", keys |-> {}, rev |-> 0]}

FnContents ==
    {Nil, Empty, Garbage}
        \cup {Text(layout, v) : layout \in {"compact", "indent2"}, v \in FnValues}

\* the error validateByPath returns
SchemaError == [kind |-> "error"]

FnInit ==
    /\ docs = [d \in Docs |-> Absent]
    /\ bdir = [n \in Names |-> Absent]
    /\ now = 1
    /\ \E name \in FnNames, b \in FnContents :
          proc = [w \in Workers |->
                    IF w = "w1"
                    THEN [IdleProc EXCEPT !.op = "CALL", !.pc = "call",
                                          !.doc = name, !.body = b]
                    ELSE IdleProc]
    /\ nreq = 0
    /\ audit = FALSE
    /\ snap = [docs |-> docs, bdir |-> bdir]
    /\ lastOk = [d \in Docs |-> NoWrite]

\* a call of computeETag(b), lines 541-547
Fingerprint(w) ==
    /\ proc[w].op = "CALL" /\ proc[w].i < MaxCalls
    /\ proc' = [proc EXCEPT ![w] =
                  [@ EXCEPT !.etag = computeETag(proc[w].body), !.i = proc[w].i + 1]]
    /\ UNCHANGED <<docs, bdir, now, nreq, audit, snap, lastOk>>

\* a call of validateByPath(path, data), lines 560-585, on the value of b
Validate(w) ==
    /\ proc[w].op = "CALL" /\ proc[w].pc = "call"
    /\ Unmarshal(proc[w].body).ok
    /\ proc' = [proc EXCEPT ![w] =
                  [@ EXCEPT !.pc = "checked",
                            !.out = IF validateByPath(proc[w].doc, Unmarshal(proc[w].body).value)
                                    THEN Nil ELSE SchemaError]]
    /\ UNCHANGED <<docs, bdir, now, nreq, audit, snap, lastOk>>

FnNext == Fingerprint("w1") \/ Validate("w1")

FnSpec == FnInit /\ [][FnNext]_vars

\* Requests of all workers interleave step by step.
ConcDocs == {"environments.json"}
\* the POSTs of a client that sends no If-Match (either body), and of one
\* that has read the first document and sends its fingerprint
ConcPosts ==
    {<<Text("compact", EnvV1), NoMatch>>, <<Text("compact", EnvV2), NoMatch>>,
     <<Text("compact", EnvV2), computeETag(MarshalIndent(EnvV1))>>}
ConcHdrs == {Hdr("int", 1)}

\* the server starts on a data directory that holds no document yet, or the
\* document a first POST has created
ConcInit ==
    /\ docs \in {[d \in Docs |-> Absent],
                 [d \in Docs |-> IF d \in ConcDocs THEN MarshalIndent(EnvV1) ELSE Absent]}
    /\ bdir = [n \in Names |-> Absent]
    /\ now = 1
    /\ proc = [w \in Workers |-> IdleProc]
    /\ nreq = 0
    /\ audit = FALSE
    /\ snap = [docs |-> docs, bdir |-> bdir]
    /\ lastOk = [d \in Docs |-> NoWrite]

\* A request goes to the first worker that is free (the workers are alike).
FirstIdle(w) == w = "w1" \/ proc["w1"].pc # "idle"

ConcStart(w) ==
    /\ nreq < MaxConcReqs
    /\ FirstIdle(w)
    /\ \/ \E d \in ConcDocs, post \in ConcPosts, hdr \in ConcHdrs :
             Post(w, d, post[1], post[2], hdr)
       \/ \E d \in ConcDocs : Get(w, d)
       \/ \E name \in {n \in NamesOf(ConcDocs) : n.ts <= MaxConcTime} : Delete(w, name)

ConcTick == ClockTick(MaxConcTime)

Next == ConcTick \/ \E w \in Workers : ConcStart(w) \/ Step(w)

Spec == ConcInit /\ [][Next]_vars

(* ------------------------------- claims -------------------------------- *)

\* The shape rule of a document, as the specification's table states it.
ShapeRule(d, v) ==
    /\ d \in {"environments.json", "releases.json", "holidays.json"} => v.type = "object"
    /\ d = "environments.json" => "environments" \in v.keys
    /\ d = "holidays.json" => "holidays" \in v.keys

\* The body is JSON that passes the shape rule of document d.
ValidBody(d, body) == body.kind = "json" /\ ShapeRule(d, body.value)

Succeeded(p) == p.op = "POST" /\ p.pc = "done" /\ p.status = 200

\* The backup files (without the sidecars) of document d in directory dir.
BackupsOf(dir, d) ==
    {n \in Names : n.prefix = TrimSuffixJSON(d) /\ n.ext = "json" /\ dir[n] # Absent}

\* C1: of two POSTs to the same existing document that overlap and both
\* carry If-Match = the fingerprint F0 the document had when both started,
\* at most one ends with 200.
C1_AtMostOneWriterSucceeds ==
    \A a, b \in Workers :
        LET p == proc[a]
            q == proc[b]
        IN  (/\ a # b
             /\ p.op = "POST" /\ q.op = "POST" /\ p.doc = q.doc
             /\ p.pre # Absent /\ p.pre = q.pre
             /\ p.ifMatch = computeETag(p.pre) /\ q.ifMatch = computeETag(q.pre)
             /\ p.prettyJSON # p.pre /\ q.prettyJSON # q.pre)
            => ~(Succeeded(p) /\ Succeeded(q))

\* C2: without overlap, a write with precondition F0 = the document's
\* fingerprint and a valid body of other content ends with 200 and an ETag
\* F1 # F0 that is the fingerprint of the document's bytes; a later write
\* that still carries F0 ends with 412 and ETag F1.
C2_OptimisticConcurrency ==
    \A w \in Workers :
        LET p == proc[w]
        IN  (p.op = "POST" /\ Finished(p) /\ ValidBody(p.doc, p.body)) =>
            /\ (/\ p.pre # Absent
                /\ p.ifMatch = computeETag(p.pre)
                /\ p.body.value # p.pre.value)
               => /\ p.status = 200
                  /\ p.etag # p.ifMatch
                  /\ p.etag = computeETag(docs[p.doc])
            /\ (/\ p.prev.cond = p.prev.F0
                /\ p.prev.F0 # p.prev.F1
                /\ p.ifMatch = p.prev.F0)
               => /\ p.status = 412
                  /\ p.etag = p.prev.F1
                  /\ p.etag = computeETag(docs[p.doc])

\* C2 witness: a write with the stale precondition F0 of the write before it
\* has been answered 412.
C2_Witness ==
    \E w \in Workers :
        LET p == proc[w]
        IN  /\ p.op = "POST" /\ Finished(p) /\ p.status = 412
            /\ p.prev.cond = p.prev.F0 /\ p.prev.F0.tag = "sha8"
            /\ p.prev.F0 # p.prev.F1 /\ p.ifMatch = p.prev.F0

\* C3: a write that ends with 412 leaves the document, the backup directory
\* and every backup and sidecar as they were, and its ETag is the
\* fingerprint of the document's bytes.
C3_PreconditionFailedChangesNothing ==
    \A w \in Workers :
        LET p == proc[w]
        IN  (p.op = "POST" /\ Finished(p) /\ p.status = 412) =>
            /\ Files = snap
            /\ p.etag = computeETag(docs[p.doc])

\* C3 witness: a 412 for a document that has a backup and a sidecar.
C3_Witness ==
    \E w \in Workers :
        LET p == proc[w]
        IN  /\ p.op = "POST" /\ Finished(p) /\ p.status = 412
            /\ \E n \in BackupsOf(bdir, p.doc) :
                  bdir[Name(n.prefix, n.ts, "json.sha256")] # Absent

\* The rotation step of the worker's write is over, and the primary write
\* has not begun.
Rotated(p) == p.op = "POST" /\ p.timestamp # 0 /\ p.pc = "trunc"

\* C4: right after the rotation step of a write, list(documentPrefix) has at
\* most that write's maxBackups entries.
C4_RotationBound ==
    \A w \in Workers :
        LET p == proc[w]
        IN  Rotated(p) =>
              Len(listBackups(bdir, TrimSuffixJSON(p.doc)).items) <= p.maxBackups

\* C4 witness: a rotation that had entries to delete has run.
C4_Witness ==
    \E w \in Workers :
        LET p == proc[w]
        IN  Rotated(p) /\ Len(p.backups) > p.maxBackups /\ p.maxBackups = 2

\* The k entries of S with the largest timestamps.
Newest(S, k) == {n \in S : Cardinality({m \in S : m.ts > n.ts}) < k}

\* C5: when rotation runs with maxBackups = k on N > k backups, each with
\* its sidecar, exactly the k backups with the largest timestamps remain.
C5_KeepsNewestBackups ==
    \A w \in Workers :
        LET p == proc[w]
            listed == {n \in Range(p.backups) : n.ext = "json"}
        IN  (/\ Rotated(p)
             /\ p.maxBackups < Cardinality(listed)
             /\ \A n \in listed : Name(n.prefix, n.ts, "json.sha256") \in Range(p.backups))
            => BackupsOf(bdir, p.doc) = Newest(listed, p.maxBackups)

\* C6: a write whose body is not JSON, or fails the shape rule of its
\* document, ends with 400 and leaves the document and the backup directory
\* as they were.
C6_ValidationGate ==
    \A w \in Workers :
        LET p == proc[w]
        IN  (p.op = "POST" /\ Finished(p) /\ ~ValidBody(p.doc, p.body)) =>
            /\ p.status = 400
            /\ Files = snap

\* C6 witness: JSON of the wrong shape has been refused for a document that
\* exists and has a backup.
C6_Witness ==
    \E w \in Workers :
        LET p == proc[w]
        IN  /\ p.op = "POST" /\ Finished(p) /\ p.status = 400
            /\ p.body.kind = "json" /\ docs[p.doc] # Absent
            /\ BackupsOf(bdir, p.doc) # {}

\* C7: without overlap, a write to a document that exists snapshots the
\* bytes it is about to replace: the backup it has written holds them, no
\* such write reaches the primary write without the snapshot, and after
\* write A (creates the document) and write B the one backup holds A's bytes.
C7_BackupHoldsReplacedBytes ==
    \A w \in Workers :
        LET p == proc[w]
        IN  (p.op = "POST" /\ p.pre # Absent) =>
            /\ p.pc = "sumread" =>
                  bdir[backupPath(p)] = p.pre /\ docs[p.doc] = p.pre
            /\ p.pc \in {"trunc", "write"} =>
                  p.timestamp # 0 /\ p.origData = p.pre
            /\ Succeeded(p) => p.timestamp # 0
            /\ (Succeeded(p) /\ BackupsOf(snap.bdir, p.doc) = {}) =>
                  /\ BackupsOf(bdir, p.doc) = {backupPath(p)}
                  /\ bdir[backupPath(p)] = p.pre

\* C7 witness: write B is done, with a limit of one backup, and the backup
\* directory held nothing of the document before it.
C7_Witness ==
    \E w \in Workers :
        LET p == proc[w]
        IN  /\ Succeeded(p) /\ p.pre # Absent /\ p.prettyJSON # p.pre
            /\ BackupsOf(snap.bdir, p.doc) = {} /\ p.maxBackups = 1

\* The backup or sidecar n is in the directory and no os.WriteFile is
\* between its open and its write of n.
Created(n) == bdir[n] # Absent /\ \A w \in Workers : ~HasOpen(proc[w], n)

\* C8 (as claimed): once a backup file and its sidecar have been created
\* their contents never change; the only step that affects them is deletion.
C8_BackupsNeverModified ==
    [][\A n \in Names :
          LET side == Name(n.prefix, n.ts, "json.sha256")
          IN  (n.ext = "json" /\ Created(n) /\ Created(side)) =>
              /\ bdir'[n] \in {bdir[n], Absent}
              /\ bdir'[side] \in {bdir[side], Absent}]_vars

\* C8 (amended): the content of a backup file or sidecar that exists is
\* changed only by a snapshot of the same document taken in the same clock
\* second (the same file name), which rewrites it; every other step leaves
\* it as it is or deletes it.
C8_ModifiedOnlyBySameSecondSnapshot ==
    [][\A n \in Names :
          (bdir[n] # Absent /\ bdir'[n] \notin {bdir[n], Absent}) =>
          \E w \in Workers :
              /\ proc[w].op = "POST" /\ proc'[w].pc # proc[w].pc
              /\ proc[w].pc \in {"bktrunc", "bkwrite", "sumtrunc", "sumwrite"}
              /\ n.prefix = TrimSuffixJSON(proc[w].doc)
              /\ n.ts = proc[w].timestamp]_vars

\* C8 witness: a write has taken its snapshot, backup and sidecar, and a
\* second snapshot of the same second has opened that backup file again.
C8_Witness ==
    \E a, b \in Workers :
        /\ proc[a].op = "POST" /\ proc[a].timestamp # 0
        /\ proc[a].pc \in {"list", "remove", "trunc", "write", "done"}
        /\ proc[b].pc = "bkwrite" /\ proc[b].timestamp = proc[a].timestamp
        /\ proc[b].doc = proc[a].doc
        /\ bdir[backupPath(proc[b])] = Empty
        /\ bdir[sidecarPath(proc[a])] # Absent

\* The bytes b are pretty-printed JSON that passes the shape rule of d.
PrettyValid(d, b) ==
    b.kind = "json" /\ b.layout = "indent2" /\ ShapeRule(d, b.value)

\* C9: in every state a document file that is present holds pretty-printed
\* JSON valid for its name, and so does what a GET of it returns.
C9_DocumentAlwaysValid ==
    /\ \A d \in Docs : docs[d] # Absent => PrettyValid(d, docs[d])
    /\ \A w \in Workers :
          LET p == proc[w]
          IN  (p.op = "GET" /\ Finished(p) /\ p.status = 200 /\ p.pre # Absent)
              => PrettyValid(p.doc, p.out)

\* C10: a document file that exists exists in every later state, and a GET
\* of a document that existed when the GET began never gets the answer {}
\* of an absent document.
C10_DocumentNeverDisappears ==
    /\ [][\A d \in Docs : docs[d] # Absent => docs'[d] # Absent]_vars
    /\ [](\A w \in Workers :
             LET p == proc[w]
             IN  (p.op = "GET" /\ Finished(p) /\ p.pre # Absent) =>
                 p.status = 200 /\ p.out # Text("compact", EmptyObject))

\* C10 witness: a GET has read the document while a POST was between the
\* open and the write of its os.WriteFile.
C10_Witness ==
    \E g, w \in Workers :
        /\ proc[g].op = "GET" /\ Finished(proc[g]) /\ proc[g].out = Empty
        /\ proc[w].op = "POST" /\ proc[w].pc = "write"

\* C11: every GET of a document whose file does not exist is answered 200
\* with the text {}, however many requests came before it, and leaves
\* documents, backups and sidecars as they were (none is created).
C11_AbsentReadIsIdempotent ==
    \A w \in Workers :
        LET p == proc[w]
        IN  (p.op = "GET" /\ Finished(p) /\ p.pre = Absent) =>
            /\ p.status = 200
            /\ p.out = Text("compact", EmptyObject)
            /\ Files = snap
            /\ docs[p.doc] = Absent

\* C11 witness: the last of several requests is a GET of the absent document.
C11_Witness ==
    \E w \in Workers :
        LET p == proc[w]
        IN  /\ p.op = "GET" /\ Finished(p) /\ p.pre = Absent
            /\ nreq = MaxReqs

\* C12: a write with a valid body and no (or an empty) If-Match is never
\* answered 412, whatever the document holds; when it has completed, also as
\* the second of two such writes, the document holds the canonical form of
\* its body.
C12_LastWriterWins ==
    \A w \in Workers :
        LET p == proc[w]
        IN  (/\ p.op = "POST" /\ Finished(p)
             /\ ValidBody(p.doc, p.body) /\ p.ifMatch = NoMatch) =>
            /\ p.status # 412
            /\ Succeeded(p) =>
                  /\ docs[p.doc] = MarshalIndent(p.body.value)
                  /\ p.etag = computeETag(docs[p.doc])

\* C12 witness: the second of two writes without If-Match has completed and
\* has replaced the content the first one wrote.
C12_Witness ==
    \E w \in Workers :
        LET p == proc[w]
        IN  /\ Succeeded(p) /\ p.ifMatch = NoMatch
            /\ p.prev.cond = NoMatch /\ p.prev.F1 = computeETag(p.pre)
            /\ p.prettyJSON # p.pre

\* C13: a write to a document whose file does not exist goes from the
\* os.Stat to the primary write: it takes no timestamp, and when it has
\* succeeded the file exists with the new bytes and the backup directory is
\* as it was when the request began.
C13_FirstWriteTakesNoBackup ==
    \A w \in Workers :
        LET p == proc[w]
        IN  (p.op = "POST" /\ p.pre = Absent /\ ValidBody(p.doc, p.body)) =>
            /\ p.pc \in {"trunc", "write", "done"}
            /\ p.timestamp = 0
            /\ bdir = snap.bdir
            /\ Succeeded(p) => docs[p.doc] = p.prettyJSON

\* C13 witness: the write that created the document has succeeded.
C13_Witness ==
    \E w \in Workers :
        LET p == proc[w]
        IN  Succeeded(p) /\ p.pre = Absent /\ docs[p.doc] = p.prettyJSON

\* C17: a write that takes its snapshot in a second in which a backup of
\* the document exists already rewrites that backup file and its sidecar:
\* the document has no more backup files than before, the file holds the
\* second snapshot's bytes, and the bytes of the first are in no backup but
\* older ones that held them before.
C17_SameSecondSnapshotOverwrites ==
    \A w \in Workers :
        LET p == proc[w]
            first == snap.bdir[backupPath(p)]
        IN  (Succeeded(p) /\ p.timestamp # 0 /\ first # Absent) =>
            /\ Cardinality(BackupsOf(bdir, p.doc))
                  <= Cardinality(BackupsOf(snap.bdir, p.doc))
            /\ bdir[backupPath(p)] = p.pre
            /\ bdir[sidecarPath(p)] \in {HexSum(p.pre), Absent}
            /\ first # p.pre =>
                  \A n \in BackupsOf(bdir, p.doc) :
                      bdir[n] = first => (n.ts < p.timestamp /\ snap.bdir[n] = first)

\* C17 witness: the second snapshot of a second has replaced a backup, with
\* its sidecar, that held other bytes.
C17_Witness ==
    \E w \in Workers :
        LET p == proc[w]
        IN  /\ Succeeded(p) /\ p.timestamp # 0
            /\ snap.bdir[backupPath(p)] \notin {Absent, p.pre}
            /\ snap.bdir[sidecarPath(p)] # Absent
            /\ bdir[sidecarPath(p)] = HexSum(p.pre)

\* C14: a write in which the read of the old bytes, the write of the backup,
\* the write of the sidecar or the rotation has failed goes on to the
\* primary write; unless that fails too, it ends with 200, the document
\* holds the new canonical bytes and the ETag is their fingerprint.
C14_BackupFailureDoesNotBlock ==
    \A w \in Workers :
        LET p == proc[w]
        IN  (p.op = "POST" /\ p.warn # "none") =>
            /\ p.pc \in {"list", "remove", "trunc", "write", "done"}
            /\ Finished(p) =>
                  IF p.ioerr THEN p.status = 500
                  ELSE /\ p.status = 200
                       /\ docs[p.doc] = p.prettyJSON
                       /\ p.etag = computeETag(p.prettyJSON)

\* C14 witness: a write has ended with 200 although a deletion of its
\* rotation failed, which has left more entries than its maxBackups.
C14_Witness ==
    \E w \in Workers :
        LET p == proc[w]
        IN  /\ Succeeded(p) /\ p.warn = "rotation"
            /\ Len(listBackups(bdir, TrimSuffixJSON(p.doc)).items) > p.maxBackups

C16_FourOutcomes ==
    \A w \in Workers :
        LET p == proc[w]
        IN  (p.op = "POST" /\ Finished(p)) =>
            /\ p.status \in {200, 400, 412, 500}
            /\ p.status = 200 =>
                  docs[p.doc] = p.prettyJSON /\ p.etag = computeETag(p.prettyJSON)
            /\ p.status = 400 <=> ~ValidBody(p.doc, p.body)
            /\ p.status = 412 => p.etag = computeETag(docs[p.doc])
            /\ p.status = 500 <=> p.ioerr
            /\ p.status # 200 => docs[p.doc] = p.pre

\* C18: computeETag gives the sentinel "0" for absent content (nil) and for
\* the empty byte sequence (what os.ReadFile returns of an empty file).
C18_EmptyAndAbsentAreSentinel ==
    \A w \in Workers :
        LET p == proc[w]
        IN  (p.op = "CALL" /\ p.i > 0 /\ p.body \in {Nil, Empty}) =>
            p.etag.tag = "0"

C20_ValidateFailsExactly ==
    \A w \in Workers :
        LET p == proc[w]
        IN  (p.op = "CALL" /\ p.pc = "checked") =>
            p.out = IF ShapeRule(p.doc, p.body.value) THEN Nil ELSE SchemaError

\* C20 witness: an object without the key "holidays" has been refused for
\* holidays.json.
C20_Witness ==
    \E w \in Workers :
        LET p == proc[w]
        IN  /\ p.op = "CALL" /\ p.pc = "checked" /\ p.doc = "holidays.json"
            /\ p.body.value = Obj({"environments"})
            /\ p.out = SchemaError

(* ------------------------ clients of one document ---------------------- *)

\* The bundled client on connection w1 (GET, then save or restore) and
\* another client on w2 that posts without If-Match, or with the
\* fingerprint of the first document.
MaxClientReqs == 3

ClientDoc == "releases.json"

ClientInit ==
    /\ docs = [d \in Docs |-> IF d = ClientDoc THEN MarshalIndent(EnvV1) ELSE Absent]
    /\ bdir = [n \in Names |-> Absent]
    /\ now = 1
    /\ proc = [w \in Workers |-> IdleProc]
    /\ nreq = 0
    /\ audit = FALSE
    /\ snap = [docs |-> docs, bdir |-> bdir]
    /\ lastOk = [d \in Docs |-> NoWrite]

ClientStart(w) ==
    /\ nreq < MaxClientReqs
    /\ \/ proc[w].held = NoTag /\ Get(w, ClientDoc)
       \/ ClientSave(w, ClientDoc, Text("compact", EnvV2))
       \/ ClientRestore(w, ClientDoc)

OtherStart(w) ==
    /\ nreq < MaxClientReqs
    /\ \E ifm \in {NoMatch, computeETag(MarshalIndent(EnvV1))} :
         Post(w, ClientDoc, Text("compact", StagingV), ifm, Hdr("missing", 0))

ClientNext ==
    \/ ConcTick
    \/ ClientStart("w1") \/ ClientHeaders("w1") \/ OtherStart("w2")
    \/ \E w \in Workers : Step(w)

ClientSpec == ClientInit /\ [][ClientNext]_vars

\* Writes of two connections with the default maxBackups: the backup
\* directory never holds more than maxBackups entries, so the deletion loop
\* of cleanupOldBackups has nothing to do.
KeepStep(w) ==
    \/ IfMatch(w) \/ Now(w) \/ ReadOrig(w)
    \/ BackupTrunc(w) \/ BackupWrite(w)
    \/ SumRead(w) \/ SumTrunc(w) \/ SumWrite(w)
    \/ List(w)
    \/ Trunc(w) \/ Write(w)
    \/ GetRead(w)
    \/ Return(w)

KeepStart(w) ==
    /\ nreq < MaxConcReqs
    /\ FirstIdle(w)
    /\ \/ \E d \in ConcDocs, post \in ConcPosts :
             Post(w, d, post[1], post[2], Hdr("missing", 0))
       \/ \E d \in ConcDocs : Get(w, d)

KeepNext == ConcTick \/ \E w \in Workers : KeepStart(w) \/ KeepStep(w)

KeepSpec == ConcInit /\ [][KeepNext]_vars

(* --------------------------- the backups API --------------------------- *)

\* Requests to /api/backups, one at a time, on directories as an operator
\* can have left them.
MaxPathReqs == 2

Rel1 == Name("releases", 1, "json")
Rel1Sum == Name("releases", 1, "json.sha256")
Rel2 == Name("releases", 2, "json")
Env1 == Name("environments", 1, "json")

\* the backup directory: empty; a backup with its sidecar and a directory
\* named like a backup; a directory alone
PathDirs ==
    {[n \in Names |-> Absent],
     [n \in Names |->
        CASE n = Rel1 -> MarshalIndent(EnvV1)
          [] n = Rel1Sum -> HexSum(MarshalIndent(EnvV1))
          [] n = Rel2 -> Subdir
          [] OTHER -> Absent],
     [n \in Names |-> IF n = Env1 THEN Subdir ELSE Absent]}

\* filenames: an entry, ../entry, a/entry, ., .., / and ../releases.json
PathFiles ==
    {<<Rel1>>, <<Rel1Sum>>, <<Rel2>>, <<DotDot, Rel1>>, <<Name("a", 0, ""), Rel1>>,
     <<Dot>>, <<DotDot>>, <<Root>>, <<DotDot, Name("releases.json", 0, "")>>}

PathPrefixes == {"", "releases", "rel", "releases.1", "environments", "holidays"}

PathInit ==
    /\ docs \in {[d \in Docs |-> Absent],
                 [d \in Docs |-> IF d = "releases.json" THEN MarshalIndent(EnvV2)
                                 ELSE Absent]}
    /\ bdir \in PathDirs
    /\ now = 1
    /\ proc = [w \in Workers |-> IdleProc]
    /\ nreq = 0
    /\ audit = TRUE
    /\ snap = [docs |-> docs, bdir |-> bdir]
    /\ lastOk = [d \in Docs |-> NoWrite]

PathStart(w) ==
    /\ nreq < MaxPathReqs
    /\ \/ \E filename \in PathFiles : BackupFetch(w, filename)
       \/ \E filename \in PathFiles \cup {<<>>} : BackupDelete(w, filename)
       \/ \E filePrefix \in PathPrefixes : BackupList(w, filePrefix)

PathNext == PathStart("w1") \/ Return("w1")

PathSpec == PathInit /\ [][PathNext]_vars

(* ------------------------------ termination --------------------------- *)

MaxLiveReqs == 2

\* Requests to two workers, with I/O errors.  A worker that can take a step
\* takes one in the end (each request runs on its own goroutine and holds no
\* lock); whether a system call fails is left open.
LiveInit ==
    /\ docs = [d \in Docs |-> IF d \in ConcDocs THEN MarshalIndent(EnvV1) ELSE Absent]
    /\ bdir = [n \in Names |-> Absent]
    /\ now = 1
    /\ proc = [w \in Workers |-> IdleProc]
    /\ nreq = 0
    /\ audit = FALSE
    /\ snap = [docs |-> docs, bdir |-> bdir]
    /\ lastOk = [d \in Docs |-> NoWrite]

\* a body that is not JSON; a write without If-Match; a write by a client
\* that has read the second document
LivePosts ==
    {<<Garbage, NoMatch>>, <<Text("compact", EnvV2), NoMatch>>,
     <<Text("compact", EnvV2), computeETag(MarshalIndent(EnvV2))>>}

LiveStart(w) ==
    /\ nreq < MaxLiveReqs
    /\ FirstIdle(w)
    /\ \/ \E d \in ConcDocs, post \in LivePosts, hdr \in ConcHdrs :
             Post(w, d, post[1], post[2], hdr)
       \/ \E d \in ConcDocs : Get(w, d)

LiveNext == ConcTick \/ \E w \in Workers : LiveStart(w) \/ Step(w) \/ Fail(w)

LiveSpec ==
    /\ LiveInit /\ [][LiveNext]_vars
    /\ \A w \in Workers : WF_vars(Step(w))

(* ------------------------- requests that only read --------------------- *)

MaxReadReqs == 3

\* One worker takes reads of every kind and, between them, deletions of
\* backups, over the directories of PathInit.
ReadStart(w) ==
    /\ nreq < MaxReadReqs
    /\ \/ \E d \in Docs : Get(w, d)
       \/ \E filename \in PathFiles : BackupFetch(w, filename)
       \/ \E filePrefix \in PathPrefixes : BackupList(w, filePrefix)
       \/ BackupSettings(w)
       \/ \E endpoint \in Endpoints : NotAllowed(w, endpoint)
       \/ \E filename \in {<<Rel1>>, <<Rel1Sum>>} : BackupDelete(w, filename)

ReadNext == ReadStart("w1") \/ GetRead("w1") \/ Return("w1")

ReadSpec == PathInit /\ [][ReadNext]_vars

ReadOps == {"GET", "FETCH", "LIST", "SETTINGS", "OTHER"}

(* ----------------------------- ticket search --------------------------- *)

\* GET /api/jira-tickets, one request at a time, on every form of the
\* configuration document.
MaxJiraReqs == 2

JiraFields == {"missing", "number", "empty", "set"}

JiraConfigs ==
    {Absent, Garbage, Text("compact", ArrayV)}
    \cup {Text("indent2", JiraObject(t, u, r)) :
            t \in JiraFields, u \in JiraFields, r \in {"missing", "badurl", "ok"}}

JiraInit ==
    /\ \E c \in JiraConfigs :
         docs = [d \in Docs \cup {"jira-config.json"} |->
                   IF d = "jira-config.json" THEN c ELSE Absent]
    /\ bdir = [n \in Names |-> Absent]
    /\ now = 1
    /\ proc = [w \in Workers |-> IdleProc]
    /\ nreq = 0
    /\ audit = FALSE
    /\ snap = [docs |-> docs, bdir |-> bdir]
    /\ lastOk = [d \in Docs |-> NoWrite]

JiraStart(w) == nreq < MaxJiraReqs /\ JiraTickets(w)

JiraNext == JiraStart("w1") \/ JiraAuth("w1") \/ JiraSearch("w1") \/ Return("w1")

JiraSpec == JiraInit /\ [][JiraNext]_vars

\* The configuration document c holds a username and a token, both
\* non-empty strings.
HasCredentials(c) ==
    /\ c.kind = "json" /\ c.value.type = "object"
    /\ c.value.apiToken = "set" /\ c.value.username = "set"

(* -------------------------- retry after conflict ----------------------- *)

\* A client on w1 that repeats a rejected write with the ETag of the 412,
\* and another client on w2 that writes without If-Match; a request starts
\* when the other connection has none under way.
MaxRetryReqs == 4

RetryStart(w) ==
    /\ nreq < MaxRetryReqs
    /\ proc["w2"].pc = "idle"
    /\ \/ /\ proc[w].held = NoTag
          /\ \E ifm \in {computeETag(MarshalIndent(EnvV1)),
                          computeETag(MarshalIndent(EnvV2))} :
                Post(w, ClientDoc, Text("compact", EnvV2), ifm, Hdr("missing", 0))
       \/ proc[w].held = NoTag /\ Get(w, ClientDoc)
       \/ ClientRetry(w)

RetryOther(w) ==
    /\ nreq < MaxRetryReqs
    /\ proc["w1"].pc = "idle"
    /\ Post(w, ClientDoc, Text("compact", StagingV), NoMatch, Hdr("missing", 0))

RetryNext ==
    \/ ConcTick
    \/ RetryStart("w1") \/ ClientConflict("w1") \/ RetryOther("w2")
    \/ \E w \in Workers : KeepStep(w)

RetrySpec == ClientInit /\ [][RetryNext]_vars

(* ----------------------------- two documents --------------------------- *)

\* One request at a time, to either document, with maxBackups = 1.
MaxIsoReqs == 4

IsoStart(w) ==
    /\ nreq < MaxIsoReqs
    /\ \/ \E d \in Docs, ifm \in {NoMatch, computeETag(MarshalIndent(EnvV1))} :
             Post(w, d, Text("compact", EnvV1), ifm, Hdr("int", 1))
       \/ \E d \in Docs : Get(w, d)

IsoNext == FaultTick \/ IsoStart("w1") \/ Step("w1")

IsoSpec == Init /\ [][IsoNext]_vars

(* ------------------------------ backup now ----------------------------- *)

\* The client's Backup now (GET, then POST of the same text) and plain
\* writes, one request at a time, on a document the server has written or
\* one that was put into the data directory in compact form.
MaxNowReqs == 4

NowInit ==
    /\ docs \in {[d \in Docs |-> IF d = ClientDoc THEN c ELSE Absent] :
                   c \in {MarshalIndent(EnvV1), Text("compact", EnvV1)}}
    /\ bdir = [n \in Names |-> Absent]
    /\ now = 1
    /\ proc = [w \in Workers |-> IdleProc]
    /\ nreq = 0
    /\ audit = FALSE
    /\ snap = [docs |-> docs, bdir |-> bdir]
    /\ lastOk = [d \in Docs |-> NoWrite]

NowStart(w) ==
    /\ nreq < MaxNowReqs
    /\ \/ proc[w].held = NoTag /\ Get(w, ClientDoc)
       \/ ClientBackupNow(w, ClientDoc)
       \/ /\ proc[w].held = NoTag
          /\ \E ifm \in {NoMatch, computeETag(MarshalIndent(EnvV1))} :
                Post(w, ClientDoc, Text("compact", EnvV2), ifm, Hdr("missing", 0))

NowNext == FaultTick \/ NowStart("w1") \/ ClientHeaders("w1") \/ Step("w1")

NowSpec == NowInit /\ [][NowNext]_vars

\* The POST p carries the bytes that the GET before it returned and that
\* the document, which exists, still holds.
IsRewrite(p) ==
    /\ p.op = "POST" /\ Finished(p) /\ p.held # NoTag
    /\ p.pre # Absent /\ p.body = p.seen /\ p.pre = p.seen

\* The write has left the document and its fingerprint as they were and
\* its backup holds the same bytes.
LeftAsItWas(p) ==
    /\ p.status = 200
    /\ docs[p.doc] = p.pre
    /\ p.etag = computeETag(p.pre)
    /\ p.timestamp # 0 /\ bdir[backupPath(p)] = p.pre

\* C21: the maxBackups of a POST is the X-Max-Backups value when that is an
\* integer greater than 0, and 10 otherwise (missing, not a number, 0,
\* negative); a POST with X-Max-Backups: 0 that overwrites a document has
\* taken the backup with its sidecar, and its rotation, with limit 10, has
\* deleted nothing.
C21_MaxBackupsFromHeader ==
    \A w \in Workers :
        LET p == proc[w]
        IN  p.op = "POST" =>
            /\ p.maxBackups = IF p.hdr.kind = "int" /\ p.hdr.n > 0 THEN p.hdr.n ELSE 10
            /\ (p.hdr = Hdr("int", 0) /\ Succeeded(p) /\ p.pre # Absent) =>
                  /\ bdir[backupPath(p)] = p.pre
                  /\ bdir[sidecarPath(p)] = HexSum(p.pre)
                  /\ \A n \in Names : snap.bdir[n] # Absent => bdir[n] # Absent

\* C21 witness: a POST with X-Max-Backups: 0 has overwritten a document that
\* had a backup of an earlier second.
C21_Witness ==
    \E w \in Workers :
        LET p == proc[w]
        IN  /\ Succeeded(p) /\ p.hdr = Hdr("int", 0) /\ p.pre # Absent
            /\ \E n \in BackupsOf(snap.bdir, p.doc) : n.ts < p.timestamp

\* C22: the data directory and the backup directory exist in every state,
\* and a fetch or delete that was answered 200 was given an entry of the
\* backup directory and has left the documents and every other entry alone.
C22_OnlyBackupEntries ==
    /\ DirExists(docs) /\ DirExists(bdir)
    /\ \A w \in Workers :
         LET p == proc[w]
         IN  (p.op \in {"FETCH", "DELETE"} /\ Finished(p) /\ p.status = 200) =>
             /\ p.target \in Names
             /\ docs = snap.docs
             /\ \A n \in Names \ {p.target} : bdir[n] = snap.bdir[n]

\* C23: a DELETE of an entry that exists is answered 200 and removes that
\* entry alone (its sidecar, the other backups and sidecars and the
\* documents are as before); a DELETE of an entry that does not exist is
\* answered with an error and changes nothing.
C23_DeleteRemovesOneEntry ==
    \A w \in Workers :
        LET p == proc[w]
        IN  (p.op = "DELETE" /\ Finished(p)) =>
            IF snap.bdir[p.target] # Absent
            THEN /\ p.status = 200
                 /\ docs = snap.docs
                 /\ bdir = [snap.bdir EXCEPT ![p.target] = Absent]
            ELSE /\ p.status >= 400
                 /\ Files = snap

\* C23 witness: a backup has been deleted and its sidecar is still there.
C23_Witness ==
    \E w \in Workers :
        LET p == proc[w]
        IN  /\ p.op = "DELETE" /\ Finished(p) /\ p.status = 200
            /\ p.target.ext = "json"
            /\ bdir[Name(p.target.prefix, p.target.ts, "json.sha256")] # Absent

\* C24: a listing with a prefix, of a backup directory that exists, is
\* answered 200 with an array of exactly the entries that are not
\* directories and whose names start with the prefix, each once; no listing
\* is answered with null.
C24_ListIsExact ==
    \A w \in Workers :
        LET p == proc[w]
        IN  (p.op = "LIST" /\ Finished(p)) =>
            /\ p.out.kind # "null"
            /\ (p.prefix # "" /\ DirExists(bdir)) =>
                 /\ p.status = 200 /\ p.out.kind = "array"
                 /\ Range(p.out.items) =
                      {n \in Names : /\ bdir[n] \notin {Absent, Subdir}
                                     /\ HasPrefix(n, p.prefix)}
                 /\ Len(p.out.items) = Cardinality(Range(p.out.items))

\* C24 witness: a listing whose prefix matches a directory and no file has
\* been answered with the empty array.
C24_Witness ==
    \E w \in Workers :
        LET p == proc[w]
        IN  /\ p.op = "LIST" /\ Finished(p) /\ p.status = 200
            /\ p.out.kind = "array" /\ p.out.items = <<>>
            /\ \E n \in Names : bdir[n] = Subdir /\ HasPrefix(n, p.prefix)

\* C25: a ticket search has called the tracker only when the configuration
\* holds both credentials; when it does not (the document absent included)
\* the search is answered 200 with the empty list.
C25_NoCredentialsEmptyList ==
    \A w \in Workers :
        LET p == proc[w]
        IN  p.op = "JIRA" =>
            /\ (p.pc \in {"jauth", "jsearch"} \/ p.calls > 0) => HasCredentials(p.pre)
            /\ (Finished(p) /\ ~HasCredentials(p.pre)) =>
                  /\ p.status = 200
                  /\ p.out = [kind |-> "array", items |-> <<>>]

\* C26: when the bundled client has read the document with its GET and the
\* document holds other content when its POST arrives, the POST is answered
\* 412.
C26_ClientGuardedByIfMatch ==
    \A w \in Workers :
        LET p == proc[w]
        IN  (/\ p.op = "POST" /\ Finished(p) /\ p.held # NoTag
             /\ ValidBody(p.doc, p.body)
             /\ p.seen.kind = "json" /\ p.pre.kind = "json" /\ p.pre # p.seen) =>
            p.status = 412

\* C27: when no request is under way, the document is whole and the writes
\* that returned 200 took their snapshots in different seconds with
\* maxBackups = 10, the bytes of each write that took a snapshot are the
\* document's content or the content of a backup.
C27_NoAcknowledgedWriteLost ==
    \A w \in Workers :
        LET p == proc[w]
        IN  (/\ \A v \in Workers : proc[v].pc \in {"idle", "done"}
             /\ \A v \in Workers \ {w} :
                   Succeeded(proc[v]) => proc[v].timestamp # p.timestamp
             /\ Succeeded(p) /\ p.timestamp # 0 /\ p.maxBackups = defaultMaxBackups
             /\ docs[p.doc].kind = "json") =>
            \/ docs[p.doc] = p.prettyJSON
            \/ \E n \in BackupsOf(bdir, p.doc) : bdir[n] = p.prettyJSON

\* C28: after a successful write to a document that existed, with any
\* maxBackups >= 1, the backup holding the bytes it replaced is in the
\* backup directory, and every backup file there has its sidecar.
C28_RotationSparesOwnBackup ==
    \A w \in Workers :
        LET p == proc[w]
        IN  (Succeeded(p) /\ p.pre # Absent /\ p.maxBackups >= 1) =>
            /\ bdir[backupPath(p)] = p.pre
            /\ \A n \in BackupsOf(bdir, p.doc) :
                  bdir[Name(n.prefix, n.ts, "json.sha256")] # Absent

\* C29: when the writes of two connections to one document, given the same
\* maxBackups, have both succeeded after taking a backup, the backup
\* directory holds at most maxBackups entries of that document.
C29_RotationBoundUnderConcurrency ==
    \A w, v \in Workers :
        LET p == proc[w]
            q == proc[v]
        IN  (/\ w # v /\ Succeeded(p) /\ Succeeded(q)
             /\ p.doc = q.doc /\ p.maxBackups = q.maxBackups
             /\ p.timestamp # 0 /\ q.timestamp # 0) =>
            Len(listBackups(bdir, TrimSuffixJSON(p.doc)).items) <= p.maxBackups

\* C30: a POST whose body is not valid is answered 400 also when the
\* document exists and its If-Match is stale; a 412 is given only to a body
\* that parsed and passed validation.
C30_ValidationBeforePrecondition ==
    \A w \in Workers :
        LET p == proc[w]
        IN  (p.op = "POST" /\ Finished(p)) =>
            /\ (/\ ~ValidBody(p.doc, p.body) /\ p.pre # Absent
                /\ p.ifMatch \notin {NoMatch, computeETag(p.pre)}) => p.status = 400
            /\ p.status = 412 => ValidBody(p.doc, p.body)

\* C30 witness: JSON of the wrong shape with a stale If-Match has been
\* answered 400.
C30_Witness ==
    \E w \in Workers :
        LET p == proc[w]
        IN  /\ p.op = "POST" /\ Finished(p) /\ p.status = 400
            /\ p.body.kind = "json" /\ p.pre # Absent
            /\ p.ifMatch \notin {NoMatch, computeETag(p.pre)}

\* C31: a POST with a valid body to a document that does not exist is
\* answered 200 and creates the document with the canonical bytes of the
\* body, whatever its If-Match.
C31_AbsentDocumentIgnoresIfMatch ==
    \A w \in Workers :
        LET p == proc[w]
        IN  (/\ p.op = "POST" /\ Finished(p)
             /\ p.pre = Absent /\ ValidBody(p.doc, p.body)) =>
            /\ p.status = 200
            /\ docs[p.doc] = p.prettyJSON
            /\ PrettyValid(p.doc, docs[p.doc])

\* C31 witness: a POST whose If-Match is the fingerprint of some content
\* has created a document.
C31_Witness ==
    \E w \in Workers :
        LET p == proc[w]
        IN  /\ Succeeded(p) /\ p.pre = Absent
            /\ p.ifMatch.tag = "sha8"

\* C32: a write repeated with If-Match = the ETag of the 412 it was
\* rejected with, on a document that is as the rejected request found it,
\* is answered 200 and its bytes are the document.
C32_RetryAfterConflict ==
    \A w \in Workers :
        LET p == proc[w]
        IN  (/\ p.op = "POST" /\ Finished(p)
             /\ p.held # NoTag /\ p.ifMatch = p.held /\ p.pre = p.seen) =>
            /\ p.status = 200
            /\ docs[p.doc] = p.prettyJSON

\* C32 witness: a repeated write has succeeded on an existing document.
C32_Witness ==
    \E w \in Workers :
        LET p == proc[w]
        IN  /\ Succeeded(p) /\ p.held # NoTag /\ p.ifMatch = p.held
            /\ p.pre = p.seen /\ p.pre # Absent

\* C33: when two writes with valid bodies to one existing document, each
\* carrying as If-Match the fingerprint the document had when it started,
\* have both ended, at least one of them has ended with 200.
C33_NotAllRejected ==
    \A a, b \in Workers :
        LET p == proc[a]
            q == proc[b]
            Fresh(r) == /\ r.op = "POST" /\ Finished(r)
                        /\ r.pre # Absent /\ ValidBody(r.doc, r.body)
                        /\ r.ifMatch = computeETag(ReadFile(r.pre))
        IN  (a # b /\ Fresh(p) /\ Fresh(q) /\ p.doc = q.doc) =>
            (p.status = 200 \/ q.status = 200)

\* C33 witness: of two such writes one has been rejected with 412 and the
\* other has succeeded.
C33_Witness ==
    \E a, b \in Workers :
        LET p == proc[a]
            q == proc[b]
        IN  /\ a # b /\ p.doc = q.doc
            /\ Succeeded(p) /\ p.pre # Absent
            /\ p.ifMatch = computeETag(ReadFile(p.pre))
            /\ q.op = "POST" /\ Finished(q) /\ q.status = 412
            /\ q.ifMatch = computeETag(ReadFile(q.pre))

\* C34: while a POST to a document is under way or has ended, the other
\* documents and the backup-directory entries of the other documents are
\* as they were when the request began.
C34_OtherDocumentsUntouched ==
    \A w \in Workers :
        LET p == proc[w]
        IN  p.op = "POST" =>
            /\ \A d \in Docs \ {p.doc} : docs[d] = snap.docs[d]
            /\ \A n \in Names :
                  n.prefix # TrimSuffixJSON(p.doc) => bdir[n] = snap.bdir[n]

\* C34 witness: a write whose rotation has deleted an entry of its own
\* document (the sidecar of its backup) has ended while another document
\* has a backup.
C34_Witness ==
    \E w \in Workers :
        LET p == proc[w]
        IN  /\ Succeeded(p) /\ p.timestamp # 0
            /\ bdir[backupPath(p)] # Absent /\ bdir[sidecarPath(p)] = Absent
            /\ \E d \in Docs \ {p.doc} : BackupsOf(bdir, d) # {}

C36_ReadsChangeNothing ==
    \A w \in Workers :
        LET p == proc[w]
        IN  (p.op \in ReadOps /\ p.pc # "idle") =>
            /\ docs = snap.docs /\ bdir = snap.bdir
            /\ p.op = "OTHER" <=> (Finished(p) /\ p.status = 405)

\* C36 witness: a backup has been fetched from a directory that holds it
\* and its sidecar beside an existing document.
C36_Witness ==
    \E w \in Workers :
        LET p == proc[w]
        IN  /\ p.op = "FETCH" /\ Finished(p) /\ p.status = 200
            /\ bdir[Rel1] # Absent /\ bdir[Rel1Sum] # Absent
            /\ docs["releases.json"] # Absent

\* C37: with weak fairness of each worker's steps a started POST reaches its
\* response, whatever the other worker does; until then the worker always
\* has a step of its own to take; the response is one of 200, 400, 412 and
\* 500 and stays as it is; the rotation loop goes through the listed entries
\* once, from index maxBackups upwards, one os.Remove each.
C37_EveryPostTerminates ==
    /\ \A w \in Workers : (proc[w].op = "POST") ~> Finished(proc[w])
    /\ [](\A w \in Workers :
            LET p == proc[w]
            IN  /\ p.pc # "idle" => ENABLED <<Step(w)>>_vars
                /\ (p.op = "POST" /\ Finished(p)) => p.status \in {200, 400, 412, 500}
                /\ p.pc = "remove" =>
                      p.maxBackups + 1 <= p.i /\ p.i <= Len(p.backups))
    /\ [][\A w \in Workers :
            /\ (proc[w].pc = "remove" /\ proc'[w].pc = "remove") =>
                  /\ proc'[w].backups = proc[w].backups
                  /\ proc'[w].i = proc[w].i + 1 \/ proc'[w].i = proc[w].i
                  /\ proc'[w].i = proc[w].i + 1 =>
                        bdir[proc[w].backups[proc[w].i]] # Absent
                        /\ bdir'[proc[w].backups[proc[w].i]] = Absent
            /\ (proc[w].op = "POST" /\ Finished(proc[w])) =>
                  \/ proc'[w].pc = "idle"
                  \/ proc'[w].pc = "done" /\ proc'[w].status = proc[w].status]_vars

\* C37 witness: one worker has answered its POST with 200 after a rotation
\* that removed the entry which the other worker, in its own rotation loop,
\* is about to remove.
C37_Witness ==
    \E w, v \in Workers :
        /\ proc[w].op = "POST" /\ Finished(proc[w]) /\ proc[w].status = 200
        /\ proc[v].pc = "remove"
        /\ bdir[proc[v].backups[proc[v].i]] = Absent

====
